---- MODULE Spec2Model ----
(***************************************************************************)
(* Loan-origination orchestrator (MasterAgent) with its worker agents,     *)
(* the rule-based intent detector, the session state store and the audit   *)
(* log.  One action per public operation of MasterAgent; a customer turn   *)
(* (process_message) is one atomic step, as sessions are processed         *)
(* strictly sequentially.                                                  *)
(*                                                                         *)
(* Units: money amounts are rupees, EMIs are paise (1/100 rupee), interest *)
(* rates are hundredths of a percent, intent confidences are 1/120.        *)
(***************************************************************************)
EXTENDS Integers, Sequences, FiniteSets, TLC

\* The orchestrator and its session.
VARIABLES current_session_id, session_file, audit_log, response,
          last_message, raised, invoked, dispatched, turns

\* One call of UnderwritingAgent.execute: its arguments and what it returned.
VARIABLES uw_input, uw_output

\* Rule 3 of the eligibility rules applied to two applicants.
VARIABLES bracket_input, bracket_output

\* Two processes calling the state store on one session: the session file,
\* the holder of the session's lock, each process's position, the finished
\* calls.
VARIABLES store_file, store_lock, store_proc, store_log

\* One call of a worker or a utility function outside a session: the
\* function with its arguments, and what the call produced.
VARIABLES call_input, call_output

orchestrator_vars == <<current_session_id, session_file, audit_log, response,
                       last_message, raised, invoked, dispatched, turns>>

underwriting_vars == <<uw_input, uw_output>>

bracket_vars == <<bracket_input, bracket_output>>

store_vars == <<store_file, store_lock, store_proc, store_log>>

call_vars == <<call_input, call_output>>

vars == <<orchestrator_vars, underwriting_vars, bracket_vars, store_vars, call_vars>>

\* Number of customer turns explored on the session.
MaxTurns == 3

----------------------------------------------------------------------------
(* Optional values: Python None is the empty tuple, a value v is <<v>>.    *)

None == <<>>

Some(x) == <<x>>

IsNone(o) == Len(o) = 0

IsSome(o) == Len(o) = 1

Min(a, b) == IF a < b THEN a ELSE b

Max(a, b) == IF a > b THEN a ELSE b

----------------------------------------------------------------------------
(* models/enums.py, models/state.py                                        *)

ConversationStage == {"SALES", "KYC", "UNDERWRITING", "SANCTION", "COMPLETED", "FAILED"}

\* ConversationState(session_id, current_stage=SALES) with all defaults.
ConversationState ==
  [ current_stage         |-> "SALES",
    customer_id           |-> None,
    customer_name         |-> None,
    sales_data            |-> None,
    kyc_data              |-> None,
    underwriting_data     |-> None,
    sanction_letter_path  |-> None,
    conversation_history  |-> <<>> ]

\* A customer-facing text: the templates it is built from, in order, and the
\* exception text interpolated into it ("" when none is).
Text(parts, err) == [parts |-> parts, error |-> err]

Message(role, content) == [role |-> role, content |-> content]

----------------------------------------------------------------------------
(* Customer inputs: concrete utterances.  The tables below record what the *)
(* regular expressions of the source match on each of them.                *)

SalesUtterances ==
  { "I need 5 lakhs for 3 years",
    "I need 12 lakhs for 5 years",
    "I need 0 lakhs for 3 years",
    "for 3 years" }

KycUtterances ==
  { "Sneha Reddy, PAN QRSTU3456V, SALARIED",
    "Rajesh Kumar, PAN ABCDE1234F, SALARIED",
    "John Doe, PAN ZZZZZ9999Z, SALARIED",
    "John Doe, PAN INVALID123, SALARIED",
    "PAN QRSTU3456V" }

OtherUtterances == { "hello", "yes I accept, proceed" }

Utterances == SalesUtterances \cup KycUtterances \cup OtherUtterances

----------------------------------------------------------------------------
(* services/llm_interface.py (rule-based path; USE_OLLAMA = False)         *)

\* Confidences are counted in 1/120: 120 is 1.0 and 84 is 0.7.
ConfidenceOne == 120

CONFIDENCE_THRESHOLD == 84

\* STAGE_INTENTS.get(current_stage, []): COMPLETED and FAILED have no entry.
STAGE_INTENTS(stage) ==
  CASE stage = "SALES" ->
         <<"provide_loan_amount", "provide_tenure", "confirm_loan_details", "modify_loan_request">>
    [] stage = "KYC" ->
         <<"provide_pan", "provide_employment", "provide_income", "confirm_kyc">>
    [] stage = "UNDERWRITING" -> <<>>
    [] stage = "SANCTION" ->
         <<"download_letter", "accept_offer", "request_modification">>
    [] OTHER -> <<>>

\* len(INTENT_PATTERNS.get(intent, []))
PatternCount(intent) ==
  CASE intent = "provide_loan_amount"  -> 5
    [] intent = "provide_tenure"       -> 4
    [] intent = "confirm_loan_details" -> 5
    [] intent = "provide_pan"          -> 2
    [] intent = "provide_employment"   -> 4
    [] intent = "provide_income"       -> 3
    [] intent = "download_letter"      -> 3
    [] intent = "accept_offer"         -> 4
    [] OTHER -> 0

\* How many patterns of the intent re.search finds in the lower-cased message.
PatternMatches(msg, intent) ==
  CASE intent = "provide_loan_amount" /\ msg \in { "I need 5 lakhs for 3 years",
                 "I need 12 lakhs for 5 years", "I need 0 lakhs for 3 years" } -> 1
    [] intent = "provide_tenure" /\ msg \in SalesUtterances -> 2
    [] intent = "confirm_loan_details" /\ msg = "yes I accept, proceed" -> 2
    [] intent = "accept_offer" /\ msg = "yes I accept, proceed" -> 3
    [] intent = "provide_pan" /\ msg \in { "Sneha Reddy, PAN QRSTU3456V, SALARIED",
                 "Rajesh Kumar, PAN ABCDE1234F, SALARIED",
                 "John Doe, PAN ZZZZZ9999Z, SALARIED", "PAN QRSTU3456V" } -> 2
    [] intent = "provide_employment" /\ msg \in { "Sneha Reddy, PAN QRSTU3456V, SALARIED",
                 "Rajesh Kumar, PAN ABCDE1234F, SALARIED",
                 "John Doe, PAN ZZZZZ9999Z, SALARIED",
                 "John Doe, PAN INVALID123, SALARIED" } -> 1
    [] OTHER -> 0

\* matches / len(patterns), times 1.5 (capped at 1.0) when several match.
calculate_intent_score(msg, intent) ==
  IF PatternCount(intent) = 0 THEN 0
  ELSE LET matches == PatternMatches(msg, intent)
           confidence == (matches * ConfidenceOne) \div PatternCount(intent)
       IN  IF matches > 1 THEN Min((confidence * 3) \div 2, ConfidenceOne)
           ELSE confidence

IntentDetectionResult(intent, confidence, clarify) ==
  [intent |-> intent, confidence |-> confidence, requires_clarification |-> clarify]

HasScore(msg, intent) == calculate_intent_score(msg, intent) > 0

\* The valid intents with a positive score, in dictionary insertion order.
ScoredIntents(msg, valid) ==
  LET Test(i) == HasScore(msg, i) IN SelectSeq(valid, Test)

\* max(intent_scores, key=intent_scores.get): the first key with the top score.
BestIntent(msg, scored) ==
  LET k == CHOOSE k \in 1..Len(scored) :
             /\ \A j \in 1..Len(scored) :
                  calculate_intent_score(msg, scored[j]) <= calculate_intent_score(msg, scored[k])
             /\ \A j \in 1..(k - 1) :
                  calculate_intent_score(msg, scored[j]) < calculate_intent_score(msg, scored[k])
  IN  scored[k]

detect_intent(msg, stage) ==
  LET valid_intents == STAGE_INTENTS(stage)
  IN  IF Len(valid_intents) = 0
      THEN IntentDetectionResult("none", ConfidenceOne, FALSE)
      ELSE LET scored == ScoredIntents(msg, valid_intents)
           IN  IF Len(scored) = 0
               THEN IntentDetectionResult("unknown", 0, TRUE)
               ELSE LET best == BestIntent(msg, scored)
                        confidence == Min(calculate_intent_score(msg, best), ConfidenceOne)
                    IN  IntentDetectionResult(best, confidence,
                                              confidence < CONFIDENCE_THRESHOLD)

\* re.search(r'(\d+)\s*(?:lakh|lakhs|l)\b', msg): the number before "lakh(s)".
LakhMatch(msg) ==
  CASE msg = "I need 5 lakhs for 3 years"  -> Some(5)
    [] msg = "I need 12 lakhs for 5 years" -> Some(12)
    [] msg = "I need 0 lakhs for 3 years"  -> Some(0)
    [] OTHER -> None

\* re.search(r'(\d+)\s*(?:year|years|yr|yrs)\b', msg): the number before "years".
YearMatch(msg) ==
  CASE msg = "I need 5 lakhs for 3 years"  -> Some(3)
    [] msg = "I need 12 lakhs for 5 years" -> Some(5)
    [] msg = "I need 0 lakhs for 3 years"  -> Some(3)
    [] msg = "for 3 years"                 -> Some(3)
    [] OTHER -> None

\* re.search(r'\b([A-Z]{5}\d{4}[A-Z])\b', msg), case-sensitive.
PanMatch(msg) ==
  CASE msg = "Sneha Reddy, PAN QRSTU3456V, SALARIED"  -> Some("QRSTU3456V")
    [] msg = "Rajesh Kumar, PAN ABCDE1234F, SALARIED" -> Some("ABCDE1234F")
    [] msg = "John Doe, PAN ZZZZZ9999Z, SALARIED"     -> Some("ZZZZZ9999Z")
    [] msg = "PAN QRSTU3456V"                         -> Some("QRSTU3456V")
    [] OTHER -> None

NoEntities == [amount |-> None, tenure_months |-> None, pan |-> None]

\* The entities dictionary: a key is present iff its field is not None.  None
\* of the utterances matches the raw-number or the months pattern.
extract_entities(msg, intent) ==
  CASE intent \in {"provide_loan_amount", "provide_tenure"} ->
         [NoEntities EXCEPT
            !.amount = IF IsSome(LakhMatch(msg)) THEN Some(LakhMatch(msg)[1] * 100000) ELSE None,
            !.tenure_months = IF IsSome(YearMatch(msg)) THEN Some(YearMatch(msg)[1] * 12) ELSE None]
    [] intent = "provide_pan" -> [NoEntities EXCEPT !.pan = PanMatch(msg)]
    [] OTHER -> NoEntities

----------------------------------------------------------------------------
(* services/mock_data.py                                                   *)

\* The registry records the utterances and the direct calls refer to
\* (CUST001, CUST004, CUST005 and CUST010).
CRM_DATABASE ==
  { [customer_id |-> "CUST001", name |-> "Rajesh Kumar", pan |-> "ABCDE1234F",
     employment_type |-> "SALARIED", monthly_income |-> 75000],
    [customer_id |-> "CUST004", name |-> "Sneha Reddy", pan |-> "QRSTU3456V",
     employment_type |-> "SALARIED", monthly_income |-> 55000],
    [customer_id |-> "CUST005", name |-> "Vikram Singh", pan |-> "WXYZ7890A",
     employment_type |-> "BUSINESS", monthly_income |-> 150000],
    [customer_id |-> "CUST010", name |-> "Meera Nair", pan |-> "YZABC8901D",
     employment_type |-> "SALARIED", monthly_income |-> 20000] }

\* MockCRMService.lookup_by_pan: the record with that PAN, or None.
lookup_by_pan(pan) ==
  IF \E c \in CRM_DATABASE : c.pan = pan
  THEN Some(CHOOSE c \in CRM_DATABASE : c.pan = pan)
  ELSE None

\* name.lower() in customer["name"].lower() or the converse.  The orchestrator
\* hands over the first two capitalised words with their punctuation.
NameMatch(name, crm_name) ==
  \/ name = crm_name
  \/ name = "Sneha Reddy," /\ crm_name = "Sneha Reddy"
  \/ name = "Rajesh Kumar," /\ crm_name = "Rajesh Kumar"
  \/ name = "Sneha" /\ crm_name = "Sneha Reddy"

\* MockCRMService.verify_customer -> (is_valid, customer_id, customer_data)
verify_customer(name, pan, employment_type) ==
  LET customer == lookup_by_pan(pan)
  IN  IF IsNone(customer)
      THEN [is_valid |-> FALSE, customer_data |-> None]
      ELSE [is_valid |-> /\ NameMatch(name, customer[1].name)
                         /\ customer[1].employment_type = employment_type,
            customer_data |-> customer]

\* MockCreditScoreAPI.get_credit_score: 600 + md5(customer_id) % 251.
get_credit_score(customer_id) ==
  CASE customer_id = "CUST001" -> 672
    [] customer_id = "CUST004" -> 764

----------------------------------------------------------------------------
(* utils/emi_calculator.py                                                 *)

\* Flat interest on the whole principal for the whole tenure, in paise.
calculate_emi_flat(principal, annual_rate, tenure_months) ==
  (principal * 100 + (principal \div 1200) * annual_rate * tenure_months) \div tenure_months

\* a / b, true division: the quotient itself, not rounded.
Quotient(a, b) == [num |-> a, den |-> b]

\* The zero-rate case returning the principal undivided.
calculate_emi_undivided(principal, annual_rate, tenure_months) ==
  IF tenure_months = 0 THEN 0
  ELSE Quotient(principal * 100, 1)

\* calculate_emi on the inputs the session can produce, in paise.  The
\* amortisation formula needs real exponentiation; the values are those the
\* source function returns.  The zero-rate case returns principal /
\* tenure_months without rounding.
calculate_emi(principal, annual_rate, tenure_months) ==
  IF tenure_months = 0 THEN 0
  ELSE IF annual_rate = 0 THEN Quotient(principal * 100, tenure_months)
  ELSE CASE principal = 500000  /\ annual_rate = 1275 /\ tenure_months = 36 -> 1678683
         [] principal = 1200000 /\ annual_rate = 1175 /\ tenure_months = 60 -> 2654199
         [] principal = 500000  /\ annual_rate = 1050 /\ tenure_months = 36 -> 1625122
         [] principal = 1000000 /\ annual_rate = 1090 /\ tenure_months = 60 -> 2169259
         [] principal = 1200000 /\ annual_rate = 1175 /\ tenure_months = 48 -> 3145351
         [] principal = 1500000 /\ annual_rate = 1175 /\ tenure_months = 48 -> 3931688
         [] principal = -100000 /\ annual_rate = 1400 /\ tenure_months = 36 -> -341776
         [] principal = -100000 /\ annual_rate = 1400 /\ tenure_months = -12 -> 781205
         [] principal = 500000  /\ annual_rate = 1275 /\ tenure_months = -12 -> -3928751

\* get_interest_range as the pair (low, high) of the returned string.
get_interest_range(loan_amount) ==
  IF loan_amount < 300000 THEN <<1300, 1500>>
  ELSE IF loan_amount <= 1000000 THEN <<1150, 1400>>
  ELSE <<1050, 1300>>

----------------------------------------------------------------------------
(* agents/sales_agent.py, verification_agent.py, underwriting_agent.py,    *)
(* sanction_agent.py: execute returns an output or raises.                 *)

Returned(output) == [ok |-> TRUE, output |-> Some(output), error |-> ""]

Raised(error) == [ok |-> FALSE, output |-> None, error |-> error]

\* A Python int used as a condition: None and 0 are falsy.
Truthy(o) == IsSome(o) /\ o[1] # 0

\* SalesAgent._get_mid_rate
get_mid_rate(interest_range) == (interest_range[1] + interest_range[2]) \div 2

\* SalesAgent.execute
SalesAgent_execute(input_data) ==
  IF ~Truthy(input_data.requested_amount) \/ ~Truthy(input_data.tenure_months)
  THEN Raised("Missing required fields: requested_amount and tenure_months")
  ELSE LET requested_amount == input_data.requested_amount[1]
           tenure_months == input_data.tenure_months[1]
           interest_range == get_interest_range(requested_amount)
           mid_rate == get_mid_rate(interest_range)
       IN  Returned([requested_amount |-> requested_amount,
                     tenure_months    |-> tenure_months,
                     estimated_emi    |-> calculate_emi(requested_amount, mid_rate, tenure_months),
                     interest_range   |-> interest_range])

\* The characters of the identifiers handed to the validator.
Characters(s) ==
  CASE s = "QRSTU3456V"  -> <<"Q", "R", "S", "T", "U", "3", "4", "5", "6", "V">>
    [] s = "ABCDE1234F"  -> <<"A", "B", "C", "D", "E", "1", "2", "3", "4", "F">>
    [] s = "ZZZZZ9999Z"  -> <<"Z", "Z", "Z", "Z", "Z", "9", "9", "9", "9", "Z">>
    [] s = "YZABC8901D"  -> <<"Y", "Z", "A", "B", "C", "8", "9", "0", "1", "D">>
    [] s = "WXYZ7890A"   -> <<"W", "X", "Y", "Z", "7", "8", "9", "0", "A">>
    [] s = "INVALID123"  -> <<"I", "N", "V", "A", "L", "I", "D", "1", "2", "3">>
    [] s = "ABCDE12345"  -> <<"A", "B", "C", "D", "E", "1", "2", "3", "4", "5">>
    [] s = "ABCD12345F"  -> <<"A", "B", "C", "D", "1", "2", "3", "4", "5", "F">>
    [] s = "ABCDE1234FG" -> <<"A", "B", "C", "D", "E", "1", "2", "3", "4", "F", "G">>

\* [A-Z]
UpperLetters ==
  { "A", "B", "C", "D", "E", "F", "G", "H", "I", "J", "K", "L", "M",
    "N", "O", "P", "Q", "R", "S", "T", "U", "V", "W", "X", "Y", "Z" }

\* \d, on the ASCII digits
Digits == { "0", "1", "2", "3", "4", "5", "6", "7", "8", "9" }

\* The same method accepting every identifier.
validate_pan_format_any(pan) == TRUE

\* VerificationAgent._validate_pan_format: ^[A-Z]{5}\d{4}[A-Z]$ on the
\* stripped, upper-cased identifier.
validate_pan_format(pan) ==
  LET c == Characters(pan)
  IN  /\ Len(c) = 10
      /\ \A i \in 1..5 : c[i] \in UpperLetters
      /\ \A i \in 6..9 : c[i] \in Digits
      /\ c[10] \in UpperLetters

\* str.strip() on the strings handed to the validator: one of them carries
\* surrounding blanks.
strip(s) == IF s = " QRSTU3456V " THEN "QRSTU3456V" ELSE s

\* str.upper() on the identifiers and employment types handed to the
\* validator: two of them carry lower-case letters.
upper(s) ==
  CASE s = "qrstu3456v" -> "QRSTU3456V"
    [] s = "salaried"   -> "SALARIED"
    [] OTHER            -> s

VerificationOutput(status, employment_type, income, flags) ==
  [kyc_status |-> status, employment_type |-> employment_type,
   monthly_income |-> income, risk_flags |-> flags]

\* The risk flags of a verified customer, in detection order.
RiskFlags(customer_data, employment_type) ==
  (IF customer_data.monthly_income < 25000 THEN <<"LOW_INCOME">> ELSE <<>>)
  \o (IF customer_data.employment_type # employment_type
      THEN <<"EMPLOYMENT_TYPE_MISMATCH">> ELSE <<>>)

\* The same result without its flag.
FailedOutput_unflagged(employment_type, flag) ==
  VerificationOutput("FAILED", employment_type, 0, <<>>)

\* VerificationOutput(kyc_status=KYCStatus.FAILED, employment_type=...,
\* monthly_income=0, risk_flags=[flag])
FailedOutput(employment_type, flag) ==
  VerificationOutput("FAILED", employment_type, 0, <<flag>>)

\* VerificationAgent.execute
VerificationAgent_execute(input_data) ==
  LET name == strip(input_data.name)
      pan == upper(strip(input_data.pan))
      employment_type == upper(strip(input_data.employment_type))
  IN  IF name = "" \/ pan = "" \/ employment_type = ""
      THEN Raised("Missing required fields: name, pan, employment_type")
      ELSE IF ~validate_pan_format(pan)
      THEN Returned(FailedOutput("UNKNOWN", "INVALID_PAN_FORMAT"))
      ELSE LET v == verify_customer(name, pan, employment_type)
           IN  IF ~v.is_valid \/ IsNone(v.customer_data)
               THEN Returned(FailedOutput(employment_type,
                      IF IsNone(v.customer_data) THEN "CUSTOMER_NOT_FOUND"
                                                 ELSE "DATA_MISMATCH"))
               ELSE Returned(VerificationOutput("VERIFIED", v.customer_data[1].employment_type,
                      v.customer_data[1].monthly_income,
                      RiskFlags(v.customer_data[1], employment_type)))

\* The identifiers VerificationAgent.execute hands to
\* crm_service.verify_customer during one call, in order.
VerificationAgent_lookups(input_data) ==
  LET name == strip(input_data.name)
      pan == upper(strip(input_data.pan))
      employment_type == upper(strip(input_data.employment_type))
  IN  IF name = "" \/ pan = "" \/ employment_type = ""
      THEN <<>>
      ELSE IF ~validate_pan_format(pan)
      THEN <<>>
      ELSE <<pan>>

MIN_INTEREST_RATE == 950

MAX_INTEREST_RATE == 1800

BASE_RATE == 1100

\* Rule 3 of _evaluate_eligibility: max_amount by credit score and income.
max_amount_disjoint_tiers(credit_score, monthly_income) ==
  IF credit_score >= 750 /\ monthly_income >= 75000 THEN 2000000
  ELSE IF credit_score < 750 /\ monthly_income >= 50000 THEN 1000000
  ELSE 500000

max_amount(credit_score, monthly_income) ==
  IF credit_score >= 750 /\ monthly_income >= 75000 THEN 2000000
  ELSE IF credit_score >= 700 /\ monthly_income >= 50000 THEN 1000000
  ELSE 500000

\* UnderwritingAgent._evaluate_eligibility -> (decision, approved_amount)
evaluate_eligibility_inclusive(credit_score, monthly_income, requested_amount, estimated_emi) ==
  IF credit_score < 700 THEN <<"REJECTED", 0>>
  ELSE IF estimated_emi * 2 >= monthly_income * 100 THEN <<"REJECTED", 0>>
  ELSE IF requested_amount > max_amount(credit_score, monthly_income)
       THEN <<"CONDITIONAL", max_amount(credit_score, monthly_income)>>
       ELSE <<"APPROVED", requested_amount>>

\* The same rules granting the whole request under a CONDITIONAL decision.
evaluate_eligibility_unreduced(credit_score, monthly_income, requested_amount, estimated_emi) ==
  IF credit_score < 700 THEN <<"REJECTED", 0>>
  ELSE IF estimated_emi * 2 > monthly_income * 100 THEN <<"REJECTED", 0>>
  ELSE IF requested_amount > max_amount(credit_score, monthly_income)
       THEN <<"CONDITIONAL", requested_amount>>
       ELSE <<"APPROVED", requested_amount>>

evaluate_eligibility(credit_score, monthly_income, requested_amount, estimated_emi) ==
  IF credit_score < 700 THEN <<"REJECTED", 0>>
  ELSE IF estimated_emi * 2 > monthly_income * 100 THEN <<"REJECTED", 0>>
  ELSE IF requested_amount > max_amount(credit_score, monthly_income)
       THEN <<"CONDITIONAL", max_amount(credit_score, monthly_income)>>
       ELSE <<"APPROVED", requested_amount>>

\* round(n / d) for n >= 0, d > 0, ties to even as Python's round.
RoundDiv(n, d) ==
  LET q == n \div d
      r == n % d
  IN  IF 2 * r > d \/ (2 * r = d /\ q % 2 = 1) THEN q + 1 ELSE q

\* UnderwritingAgent._calculate_rate_components
calculate_rate_components_started_step(credit_score, tenure_months) ==
  [ base |-> BASE_RATE,
    credit_adjustment |->
      IF credit_score > 700 THEN 0 - 50 * ((credit_score - 700 + 49) \div 50) ELSE 0,
    tenure_adjustment |-> RoundDiv(20 * Max(0, tenure_months - 36), 12) ]

calculate_rate_components(credit_score, tenure_months) ==
  [ base |-> BASE_RATE,
    credit_adjustment |->
      IF credit_score > 700 THEN 0 - 50 * ((credit_score - 700) \div 50) ELSE 0,
    \* 0.2 * max(0, tenure_months / 12 - 3) percent, rounded to 2 decimals
    tenure_adjustment |-> RoundDiv(20 * Max(0, tenure_months - 36), 12) ]

\* UnderwritingAgent._apply_rate_bounds
apply_rate_bounds_unbounded(rate) == rate

apply_rate_bounds(rate) == Max(MIN_INTEREST_RATE, Min(MAX_INTEREST_RATE, rate))

\* UnderwritingAgent._calculate_risk_grade
calculate_risk_grade(credit_score) ==
  IF credit_score >= 750 THEN "A+"
  ELSE IF credit_score >= 725 THEN "A"
  ELSE IF credit_score >= 700 THEN "B+"
  ELSE IF credit_score >= 675 THEN "B"
  ELSE "C+"

\* UnderwritingAgent.execute once the credit score is fetched: eligibility,
\* rate components, bounded final rate, risk grade.
UnderwritingOutput(credit_score, input_data) ==
  LET eligibility == evaluate_eligibility(credit_score, input_data.monthly_income,
                       input_data.requested_amount, input_data.estimated_emi)
      rate_components == calculate_rate_components(credit_score, input_data.tenure_months)
  IN  [decision |-> eligibility[1],
       approved_amount |-> eligibility[2],
       credit_score |-> credit_score,
       rate_components |-> rate_components,
       final_interest_rate |->
         apply_rate_bounds(BASE_RATE + rate_components.credit_adjustment
                           + rate_components.tenure_adjustment),
       risk_grade |-> calculate_risk_grade(credit_score)]

\* UnderwritingAgent.execute
UnderwritingAgent_execute(input_data) ==
  IF \/ IsNone(input_data.customer_id)
     \/ input_data.requested_amount = 0 \/ input_data.tenure_months = 0
     \/ input_data.monthly_income = 0 \/ input_data.estimated_emi = 0
  THEN Raised("Missing required underwriting parameters")
  ELSE Returned(UnderwritingOutput(get_credit_score(input_data.customer_id[1]), input_data))

\* SanctionAgent.execute: the generator writes outputs/sanction_letters/
\* <session>.pdf; the n-th generated letter of the session gets sanction id n.
SanctionAgent_execute(input_data, n) ==
  Returned([letter_path |-> "outputs/sanction_letters/sess.pdf",
            sanction_id |-> n,
            validity_days |-> 30,
            metadata |-> [customer_id |-> input_data.customer_id,
                          approved_amount |-> input_data.approved_amount,
                          interest_rate |-> input_data.final_interest_rate,
                          tenure_months |-> input_data.tenure_months]])

----------------------------------------------------------------------------
(* Failures of the environment.  Every worker call goes through            *)
(* BaseAgent.run, which writes the audit file, and every save writes the   *)
(* session file; either can raise.  A turn names at most one operation     *)
(* that raises when the turn reaches it: the first exception ends the      *)
(* turn's handler chain.  X.run is the worker's run raising, X.save the     *)
(* handler's save of the result, X.transition the save inside              *)
(* _transition_stage, X.log the audit write inside _transition_stage.      *)

Faults ==
  { "none",
    "sales.run", "sales.save", "sales.transition", "sales.log",
    "kyc.run", "kyc.save", "kyc.transition", "kyc.log",
    "underwriting.run", "underwriting.save", "underwriting.transition", "underwriting.log",
    "sanction.run", "sanction.save", "sanction.transition", "sanction.log" }

\* The operations a turn that starts in the given stage can reach; a fault
\* named for any other operation has no effect on the turn.
FaultsFrom(stage) ==
  CASE stage = "SALES" -> {"none", "sales.run", "sales.save", "sales.transition", "sales.log"}
    [] stage = "KYC" ->
         Faults \ {"sales.run", "sales.save", "sales.transition", "sales.log"}
    [] stage = "UNDERWRITING" ->
         {"none", "underwriting.run", "underwriting.save", "underwriting.transition",
          "underwriting.log",
          "sanction.run", "sanction.save", "sanction.transition", "sanction.log"}
    [] stage = "SANCTION" ->
         {"none", "sanction.run", "sanction.save", "sanction.transition", "sanction.log"}
    [] OTHER -> {"none"}

\* str(e) of an exception raised by file I/O.
IOFailure == "OSError: write failed"

----------------------------------------------------------------------------
(* services/state_manager.py, services/audit_logger.py, agents/base_agent  *)
(* A world is the session file, the audit file, the workers invoked in the *)
(* current turn and the stage handlers entered in it.                      *)

\* StateManager.save_state: the file becomes the in-memory state.
save_state(w, state) == [w EXCEPT !.file = state]

\* StateManager.add_message: load the file, append, save.
add_message(w, role, content) ==
  save_state(w, [w.file EXCEPT !.conversation_history = Append(@, Message(role, content))])

\* AuditLogger.log_state_transition
log_state_transition(w, from_stage, to_stage, reason) ==
  [w EXCEPT !.audit = Append(@, [event_type |-> "STATE_TRANSITION",
                                 from_stage |-> from_stage,
                                 to_stage   |-> to_stage,
                                 reason     |-> reason])]

\* AuditLogger.log_execution
log_execution(w, agent_name, input_data, output, success, error) ==
  [w EXCEPT !.audit = Append(@, [event_type |-> "EXECUTION",
                                 agent   |-> agent_name,
                                 input   |-> input_data,
                                 output  |-> output,
                                 success |-> success,
                                 error   |-> error])]

\* BaseAgent.run: execute, log the execution, return the output or re-raise.
run(w, agent_name, input_data, execution, fails) ==
  LET result == IF fails THEN Raised(IOFailure) ELSE execution
      w1 == [w EXCEPT !.invoked = Append(@, agent_name)]
  IN  [result |-> result,
       w |-> log_execution(w1, agent_name, input_data, result.output, result.ok,
                           result.error)]

----------------------------------------------------------------------------
(* agents/master_agent.py                                                  *)

\* A call of a stage handler of MasterAgent: the handler is entered.
enter(w, handler) == [w EXCEPT !.handlers = Append(@, handler)]

\* What a handler leaves behind: the world, the text returned to the
\* customer, and the exception it caught (None when it caught none).
Outcome(w, text, caught) == [w |-> w, response |-> text, raised |-> caught]

\* The stage and data fields of a session state (everything but the turns).
DataFields(state) ==
  [ current_stage        |-> state.current_stage,
    customer_id          |-> state.customer_id,
    customer_name        |-> state.customer_name,
    sales_data           |-> state.sales_data,
    kyc_data             |-> state.kyc_data,
    underwriting_data    |-> state.underwriting_data,
    sanction_letter_path |-> state.sanction_letter_path ]

\* An exception caught by a handler: the operation that raised, str(e), and
\* what the session file held just before that operation was called.
Caught(at, error, w) == Some([at |-> at, error |-> error, before |-> DataFields(w.file)])

\* MasterAgent._transition_stage up to the audit call: set the stage, save.
stage_saved(w, state, new_stage) ==
  save_state(w, [state EXCEPT !.current_stage = new_stage])

\* MasterAgent._transition_stage: set the stage, save, log the transition.
transition_stage(w, state, new_stage, reason) ==
  log_state_transition(stage_saved(w, state, new_stage),
                       state.current_stage, new_stage, reason)

\* state.sales_data = sales_output
SetSalesDataDropped(state, sales_output) == state

SetSalesData(state, sales_output) == [state EXCEPT !.sales_data = Some(sales_output)]

\* The same assignments without the customer identifier.
SetKycData_anonymous(state, verification_output, customer_id, name) ==
  [state EXCEPT !.kyc_data = Some(verification_output),
                !.customer_name = name]

\* state.kyc_data = verification_output; state.customer_id = ...;
\* state.customer_name = name
SetKycData(state, verification_output, customer_id, name) ==
  [state EXCEPT !.kyc_data = Some(verification_output),
                !.customer_id = Some(customer_id),
                !.customer_name = name]

\* state.underwriting_data = underwriting_output
SetUnderwritingData(state, underwriting_output) ==
  [state EXCEPT !.underwriting_data = Some(underwriting_output)]

\* state.sanction_letter_path = sanction_output.letter_path
SetSanctionLetterPath(state, sanction_output) ==
  [state EXCEPT !.sanction_letter_path = Some(sanction_output.letter_path)]

\* The sanction id the next generated letter gets.
NextSanctionId(w) ==
  1 + Cardinality({i \in 1..Len(w.audit) :
        /\ w.audit[i].event_type = "EXECUTION"
        /\ w.audit[i].agent = "SanctionAgent"
        /\ w.audit[i].success})

\* The indicative EMI of the sales quote handed on instead.
calculate_final_emi_indicative(state) == state.sales_data[1].estimated_emi

\* final_emi = calculate_emi(approved_amount, final_interest_rate,
\* state.sales_data.tenure_months)
calculate_final_emi(state) ==
  calculate_emi(state.underwriting_data[1].approved_amount,
                state.underwriting_data[1].final_interest_rate,
                state.sales_data[1].tenure_months)

\* MasterAgent._handle_sanction_stage
handle_sanction_stage(w0, state, fault) ==
  LET w == enter(w0, "_handle_sanction_stage") IN
  IF IsNone(state.underwriting_data)
  THEN Outcome(w, Text(<<"Error: Missing underwriting data.">>, ""), None)
  ELSE
    LET uw == state.underwriting_data[1]
        final_emi == calculate_final_emi(state)
        input_data == [customer_name |-> state.customer_name,
                       customer_id |-> state.customer_id,
                       approved_amount |-> uw.approved_amount,
                       tenure_months |-> state.sales_data[1].tenure_months,
                       final_interest_rate |-> uw.final_interest_rate,
                       estimated_emi |-> final_emi,
                       risk_grade |-> uw.risk_grade]
        \* the try block, given the result of self.sanction_agent.run
        try(r) ==
          LET state1 == SetSanctionLetterPath(state, r.result.output[1])
          IN  IF ~r.result.ok
              THEN Outcome(r.w, Text(<<"Error generating sanction letter: ">>, r.result.error),
                           Caught("sanction.run", r.result.error, w))
              ELSE IF fault = "sanction.save"
              THEN Outcome(r.w, Text(<<"Error generating sanction letter: ">>, IOFailure),
                           Caught("sanction.save", IOFailure, r.w))
              ELSE IF fault = "sanction.transition"
              THEN Outcome(save_state(r.w, state1),
                           Text(<<"Error generating sanction letter: ">>, IOFailure),
                           Caught("sanction.transition", IOFailure, save_state(r.w, state1)))
              ELSE IF fault = "sanction.log"
              THEN Outcome(stage_saved(save_state(r.w, state1), state1, "COMPLETED"),
                           Text(<<"Error generating sanction letter: ">>, IOFailure),
                           Caught("sanction.log", IOFailure,
                                  stage_saved(save_state(r.w, state1), state1, "COMPLETED")))
              ELSE Outcome(transition_stage(save_state(r.w, state1), state1, "COMPLETED",
                                            "Sanction letter generated"),
                           Text(<<"Your sanction letter has been generated successfully!">>, ""),
                           None)
    IN  try(run(w, "SanctionAgent", input_data,
                SanctionAgent_execute(input_data, NextSanctionId(w)),
                fault = "sanction.run"))

\* The text of a successful underwriting decision, before the sanction text.
DecisionText(decision) ==
  IF decision = "CONDITIONAL"
  THEN "Good news! Your loan has been conditionally approved."
  ELSE "Congratulations! Your loan has been approved!"

\* MasterAgent._handle_underwriting_stage
handle_underwriting_stage(w0, state, fault) ==
  LET w == enter(w0, "_handle_underwriting_stage") IN
  IF IsNone(state.sales_data) \/ IsNone(state.kyc_data)
  THEN Outcome(w, Text(<<"Error: Missing sales or KYC data.">>, ""), None)
  ELSE
    LET input_data == [customer_id |-> state.customer_id,
                       requested_amount |-> state.sales_data[1].requested_amount,
                       tenure_months |-> state.sales_data[1].tenure_months,
                       monthly_income |-> state.kyc_data[1].monthly_income,
                       estimated_emi |-> state.sales_data[1].estimated_emi]
        \* decision_msg + "\n\n" + sanction_response
        joined(decision, sanction) ==
          Outcome(sanction.w,
                  Text(<<DecisionText(decision)>> \o sanction.response.parts,
                       sanction.response.error),
                  sanction.raised)
        \* the rest of the try block once the output is stored and saved
        decide(underwriting_output, state1, w1) ==
          LET new_stage == IF underwriting_output.decision = "REJECTED"
                           THEN "FAILED" ELSE "SANCTION"
              reason == CASE underwriting_output.decision = "REJECTED" -> "Loan rejected"
                          [] underwriting_output.decision = "CONDITIONAL" -> "Conditional approval"
                          [] OTHER -> "Loan approved"
          IN  IF fault = "underwriting.transition"
              THEN Outcome(w1, Text(<<"Error during underwriting: ">>, IOFailure),
                           Caught("underwriting.transition", IOFailure, w1))
              ELSE IF fault = "underwriting.log"
              THEN Outcome(stage_saved(w1, state1, new_stage),
                           Text(<<"Error during underwriting: ">>, IOFailure),
                           Caught("underwriting.log", IOFailure,
                                  stage_saved(w1, state1, new_stage)))
              ELSE IF underwriting_output.decision = "REJECTED"
              THEN Outcome(transition_stage(w1, state1, new_stage, reason),
                           Text(<<"We regret to inform you that your loan application could not be approved at this time.">>, ""),
                           None)
              ELSE joined(underwriting_output.decision,
                          handle_sanction_stage(
                            transition_stage(w1, state1, new_stage, reason),
                            [state1 EXCEPT !.current_stage = new_stage], fault))
        \* the try block, given the result of self.underwriting_agent.run
        try(r) ==
          IF ~r.result.ok
          THEN Outcome(r.w, Text(<<"Error during underwriting: ">>, r.result.error),
                       Caught("underwriting.run", r.result.error, w))
          ELSE IF fault = "underwriting.save"
          THEN Outcome(r.w, Text(<<"Error during underwriting: ">>, IOFailure),
                       Caught("underwriting.save", IOFailure, r.w))
          ELSE decide(r.result.output[1],
                      SetUnderwritingData(state, r.result.output[1]),
                      save_state(r.w, SetUnderwritingData(state, r.result.output[1])))
    IN  try(run(w, "UnderwritingAgent", input_data, UnderwritingAgent_execute(input_data),
                fault = "underwriting.run"))

\* The employment type the KYC handler picks from the words of the message.
KycEmploymentType(msg) ==
  IF msg \in { "Sneha Reddy, PAN QRSTU3456V, SALARIED",
               "Rajesh Kumar, PAN ABCDE1234F, SALARIED",
               "John Doe, PAN ZZZZZ9999Z, SALARIED",
               "John Doe, PAN INVALID123, SALARIED" }
  THEN Some("SALARIED") ELSE None

\* The name the KYC handler builds: the first two capitalised words that are
\* not all upper case, punctuation included.
KycName(msg) ==
  CASE msg = "Sneha Reddy, PAN QRSTU3456V, SALARIED"  -> Some("Sneha Reddy,")
    [] msg = "Rajesh Kumar, PAN ABCDE1234F, SALARIED" -> Some("Rajesh Kumar,")
    [] msg = "John Doe, PAN ZZZZZ9999Z, SALARIED"     -> Some("John Doe,")
    [] msg = "John Doe, PAN INVALID123, SALARIED"     -> Some("John Doe,")
    [] OTHER -> None

KycErrorText ==
  Text(<<"I encountered an error during verification. Please provide your name, PAN, and employment type again.">>, "")

\* The stage a verified KYC result leads to.
KycVerifiedStageRestart == "SALES"

KycVerifiedStage == "UNDERWRITING"

\* name and pan and employment_type
KycFieldsPresent(name, pan, employment_type) ==
  IsSome(name) /\ IsSome(pan) /\ IsSome(employment_type)

\* MasterAgent._handle_kyc_stage once the validator has returned VERIFIED:
\* store the result and the customer's identity, save, move to UNDERWRITING
\* and run the underwriting handler.
kyc_verified(w, state, verification_output, customer_id, name, fault) ==
  LET state1 == SetKycData(state, verification_output, customer_id, name)
      w1 == save_state(w, state1)
  IN  IF fault = "kyc.save"
      THEN Outcome(w, KycErrorText, Caught("kyc.save", IOFailure, w))
      ELSE IF fault = "kyc.transition"
      THEN Outcome(w1, KycErrorText, Caught("kyc.transition", IOFailure, w1))
      ELSE IF fault = "kyc.log"
      THEN Outcome(stage_saved(w1, state1, KycVerifiedStage), KycErrorText,
                   Caught("kyc.log", IOFailure, stage_saved(w1, state1, KycVerifiedStage)))
      ELSE handle_underwriting_stage(
             transition_stage(w1, state1, KycVerifiedStage, "KYC verified"),
             [state1 EXCEPT !.current_stage = KycVerifiedStage], fault)

\* MasterAgent._handle_kyc_stage
handle_kyc_stage(w0, state, user_message, intent, fault) ==
  LET w == enter(w0, "_handle_kyc_stage") IN
  LET entities == extract_entities(user_message, intent)
      name == KycName(user_message)
      pan == entities.pan
      employment_type == KycEmploymentType(user_message)
  IN  IF KycFieldsPresent(name, pan, employment_type)
      THEN
        LET input_data == [name |-> name[1], pan |-> pan[1],
                           employment_type |-> employment_type[1]]
            \* the try block, given the result of self.verification_agent.run
            try(r) ==
              IF ~r.result.ok
              THEN Outcome(r.w, KycErrorText, Caught("kyc.run", r.result.error, w))
              ELSE IF r.result.output[1].kyc_status = "FAILED"
              THEN IF fault = "kyc.transition"
                   THEN Outcome(r.w, KycErrorText, Caught("kyc.transition", IOFailure, r.w))
                   ELSE IF fault = "kyc.log"
                   THEN Outcome(stage_saved(r.w, state, "FAILED"), KycErrorText,
                                Caught("kyc.log", IOFailure, stage_saved(r.w, state, "FAILED")))
                   ELSE Outcome(transition_stage(r.w, state, "FAILED", "KYC verification failed"),
                                Text(<<"I'm sorry, but we couldn't verify your details.">>, ""),
                                None)
              ELSE kyc_verified(r.w, state, r.result.output[1],
                                lookup_by_pan(pan[1])[1].customer_id, name, fault)
        IN  try(run(w, "VerificationAgent", input_data,
                    VerificationAgent_execute(input_data), fault = "kyc.run"))
      ELSE Outcome(w, Text(<<"Please provide all required details:">>, ""), None)

SalesErrorText ==
  Text(<<"I encountered an error processing your loan request. Please try again with the loan amount and tenure.">>, "")

\* "amount" in entities and "tenure_months" in entities
SalesFieldsPresentTenureOnly(entities) == IsSome(entities.tenure_months)

SalesFieldsPresent(entities) == IsSome(entities.amount) /\ IsSome(entities.tenure_months)

\* MasterAgent._handle_sales_stage
handle_sales_stage(w0, state, user_message, intent, fault) ==
  LET w == enter(w0, "_handle_sales_stage") IN
  LET entities == extract_entities(user_message, intent)
  IN  IF SalesFieldsPresent(entities)
      THEN
        LET input_data == [requested_amount |-> entities.amount,
                           tenure_months |-> entities.tenure_months]
            try(r) ==
              LET state1 == SetSalesData(state, r.result.output[1])
                  w1 == save_state(r.w, state1)
              IN  IF ~r.result.ok
                  THEN Outcome(r.w, SalesErrorText, Caught("sales.run", r.result.error, w))
                  ELSE IF fault = "sales.save"
                  THEN Outcome(r.w, SalesErrorText, Caught("sales.save", IOFailure, r.w))
                  ELSE IF fault = "sales.transition"
                  THEN Outcome(w1, SalesErrorText, Caught("sales.transition", IOFailure, w1))
                  ELSE IF fault = "sales.log"
                  THEN Outcome(stage_saved(w1, state1, "KYC"), SalesErrorText,
                               Caught("sales.log", IOFailure, stage_saved(w1, state1, "KYC")))
                  ELSE Outcome(transition_stage(w1, state1, "KYC", "Sales data collected"),
                               Text(<<"Great! Based on your requirement ... Now, let's proceed with KYC verification.">>, ""),
                               None)
        IN  try(run(w, "SalesAgent", input_data, SalesAgent_execute(input_data),
                    fault = "sales.run"))
      ELSE Outcome(w, Text(<<"I need a bit more information.">>, ""), None)

\* The same method answering with nothing.
handle_unclear_intent_silent(state) == Text(<<>>, "")

\* MasterAgent._handle_unclear_intent
handle_unclear_intent(state) ==
  CASE state.current_stage = "SALES" ->
         Text(<<"I didn't quite catch that. Could you please tell me:">>, "")
    [] state.current_stage = "KYC" ->
         Text(<<"I need your KYC details to proceed. Please provide:">>, "")
    [] OTHER -> Text(<<"I'm not sure I understood. Could you please rephrase?">>, "")

ClosingCompleted ==
  Text(<<"Your loan application has been completed. Thank you for choosing BFSI Bank!">>, "")

ClosingFailed ==
  Text(<<"Your loan application was not approved. Please contact our support team for more information.">>, "")

\* MasterAgent._process_by_stage
process_by_stage_reopen(w, state, user_message, intent, fault) ==
  CASE state.current_stage = "SALES" -> handle_sales_stage(w, state, user_message, intent, fault)
    [] state.current_stage = "KYC" -> handle_kyc_stage(w, state, user_message, intent, fault)
    [] state.current_stage = "UNDERWRITING" -> handle_underwriting_stage(w, state, fault)
    [] state.current_stage \in {"SANCTION", "COMPLETED"} -> handle_sanction_stage(w, state, fault)
    [] state.current_stage = "FAILED" -> Outcome(w, ClosingFailed, None)

process_by_stage(w, state, user_message, intent, fault) ==
  CASE state.current_stage = "SALES" -> handle_sales_stage(w, state, user_message, intent, fault)
    [] state.current_stage = "KYC" -> handle_kyc_stage(w, state, user_message, intent, fault)
    [] state.current_stage = "UNDERWRITING" -> handle_underwriting_stage(w, state, fault)
    [] state.current_stage = "SANCTION" -> handle_sanction_stage(w, state, fault)
    [] state.current_stage = "COMPLETED" -> Outcome(w, ClosingCompleted, None)
    [] state.current_stage = "FAILED" -> Outcome(w, ClosingFailed, None)

\* The body of MasterAgent.process_message on an existing session: the
\* state is loaded once, the customer turn is appended to the file, the
\* handlers work on the loaded state, the response is appended to the file.
Turn(file, audit, user_message, fault) ==
  LET state == file
      w1 == add_message([file |-> file, audit |-> audit, invoked |-> <<>>, handlers |-> <<>>],
                        "customer", Text(<<user_message>>, ""))
      \* state_manager.add_message(session_id, "system", response); return response
      reply(o) == [o EXCEPT !.w = add_message(o.w, "system", o.response)]
      route(intent_result) ==
        IF intent_result.requires_clarification
        THEN Outcome(w1, handle_unclear_intent(state), None)
        ELSE process_by_stage(w1, state, user_message, intent_result.intent, fault)
  IN  reply(route(detect_intent(user_message, state.current_stage)))

WelcomeText == Text(<<"Welcome to BFSI Bank!">>, "")

NoSessionText == Text(<<"Error: No active session. Please start a new conversation.">>, "")

----------------------------------------------------------------------------
(* The state machine                                                       *)

\* MasterAgent.__init__: no session yet.
NoSession ==
  /\ current_session_id = None
  /\ session_file = None
  /\ audit_log = <<>>
  /\ response = Text(<<>>, "")
  /\ last_message = ""
  /\ raised = None
  /\ invoked = <<>>
  /\ dispatched = <<>>
  /\ turns = 0

\* No call of the underwriting engine outside a session is followed.
NoUnderwritingCall ==
  /\ uw_input = None
  /\ uw_output = None
  /\ bracket_input = None
  /\ bracket_output = None

\* The processes that share the session's file and lock.
Procs == {1, 2}

\* StateManager.create_session: the file holds a fresh session, nobody holds
\* the lock, no process is in a call.
NoStoreCall ==
  /\ store_file = Some(ConversationState)
  /\ store_lock = None
  /\ store_proc = [p \in Procs |-> [pc |-> "idle", op |-> None, state |-> None, calls |-> 0]]
  /\ store_log = {}

\* No worker or utility function is called outside a session.
NoCall ==
  /\ call_input = None
  /\ call_output = None

Init == NoSession /\ NoUnderwritingCall /\ NoStoreCall /\ NoCall

\* MasterAgent.start_conversation (one session is followed).
start_conversation ==
  /\ IsNone(current_session_id)
  /\ current_session_id' = Some("sess")
  /\ LET w0 == [file |-> ConversationState, audit |-> audit_log, invoked |-> <<>>, handlers |-> <<>>]
         w1 == log_state_transition(w0, "NONE", "SALES", "New conversation started")
         w2 == add_message(w1, "system", WelcomeText)
     IN  /\ session_file' = Some(w2.file)
         /\ audit_log' = w2.audit
  /\ response' = WelcomeText
  /\ UNCHANGED <<last_message, raised, invoked, dispatched, turns>>
  /\ UNCHANGED <<underwriting_vars, bracket_vars, store_vars, call_vars>>

\* MasterAgent.process_message
process_message(user_message, fault) ==
  /\ IF IsNone(current_session_id)
     THEN /\ response' = NoSessionText
          /\ UNCHANGED <<current_session_id, session_file, audit_log, last_message,
                         raised, invoked, dispatched, turns>>
     ELSE /\ turns < MaxTurns
          /\ fault \in FaultsFrom(session_file[1].current_stage)
          /\ LET t == Turn(session_file[1], audit_log, user_message, fault)
             IN  /\ session_file' = Some(t.w.file)
                 /\ audit_log' = t.w.audit
                 /\ invoked' = t.w.invoked
                 /\ dispatched' = t.w.handlers
                 /\ response' = t.response
                 /\ raised' = t.raised
          /\ last_message' = user_message
          /\ turns' = turns + 1
          /\ UNCHANGED current_session_id
  /\ UNCHANGED <<underwriting_vars, bracket_vars, store_vars, call_vars>>

Next ==
  \/ start_conversation
  \/ \E user_message \in Utterances, fault \in Faults : process_message(user_message, fault)

Spec == Init /\ [][Next]_vars

----------------------------------------------------------------------------
(* UnderwritingAgent.execute on its own: the arguments the orchestrator    *)
(* passes and the score the credit-score provider returns are inputs.      *)

\* Longest tenure, in months, of the range of tenures tried one by one.
MaxTenureMonths == 72

\* MockCreditScoreAPI.get_credit_score returns 600 + (hash % 251).
ScoreRange == 600..850

\* Scores, incomes and amounts on both sides of every threshold of the rules.
BoundaryScores == {600, 650, 699, 700, 710, 749, 750, 760, 850}

BoundaryIncomes == {20000, 49999, 50000, 55000, 74999, 75000, 80000}

BoundaryAmounts == {100000, 500000, 500001, 1000000, 1000001, 1500000, 2000000, 2000001}

\* Tenures long enough for the composed rate to pass the upper bound.
LongTenures == {120, 240, 360, 456, 457, 480, 600}

\* Indicative EMIs, in paise, below, at and above half of the income.
EmisAround(monthly_income) ==
  {100, monthly_income * 50 - 1, monthly_income * 50, monthly_income * 50 + 1}

\* state.sales_data.estimated_emi: the EMI of the sales quote for a request.
SalesQuote(requested_amount, tenure_months) ==
  SalesAgent_execute([requested_amount |-> Some(requested_amount),
                      tenure_months |-> Some(tenure_months)]).output[1].estimated_emi

\* The arguments of one call, with the score the provider returns for the
\* customer.
UnderwritingInput(credit_score, monthly_income, requested_amount, tenure_months, estimated_emi) ==
  [credit_score |-> credit_score, monthly_income |-> monthly_income,
   requested_amount |-> requested_amount, tenure_months |-> tenure_months,
   estimated_emi |-> estimated_emi]

\* Every threshold of the eligibility rules, at a tenure of three years.
BoundaryInputs ==
  UNION { { UnderwritingInput(s, i, a, 36, e) :
              s \in BoundaryScores, a \in BoundaryAmounts, e \in EmisAround(i) } :
          i \in BoundaryIncomes }

\* Every score of the provider with every tenure, for a request of 500,000
\* by a customer earning 80,000 whose indicative EMI is that of the quote for
\* three years.
RateInputs ==
  { UnderwritingInput(s, 80000, 500000, t, SalesQuote(500000, 36)) :
      s \in ScoreRange, t \in (1..MaxTenureMonths) \cup LongTenures }

\* Requests above 1,000,000 over four years by a customer earning 55,000,
\* with the indicative EMI of the sales quote, as the orchestrator passes it.
QuotedInputs ==
  { UnderwritingInput(s, 55000, a, 48, SalesQuote(a, 48)) :
      s \in {710, 764}, a \in {1200000, 1500000} }

UnderwritingInputs == BoundaryInputs \cup RateInputs \cup QuotedInputs

UnderwritingInit ==
  /\ NoSession
  /\ NoStoreCall
  /\ NoCall
  /\ uw_input \in {Some(i) : i \in UnderwritingInputs}
  /\ uw_output = None
  /\ bracket_input = None
  /\ bracket_output = None

\* UnderwritingAgent.execute, from the fetched score to the returned output.
execute_underwriting ==
  /\ IsSome(uw_input)
  /\ IsNone(uw_output)
  /\ uw_output' = Some(UnderwritingOutput(uw_input[1].credit_score, uw_input[1]))
  /\ UNCHANGED <<uw_input, bracket_vars, orchestrator_vars, store_vars, call_vars>>

SpecUnderwriting == UnderwritingInit /\ [][execute_underwriting]_vars

\* The applicants compared: score and income on both sides of the brackets'
\* thresholds, every score at or above the score threshold.
Applicants ==
  { [credit_score |-> s, monthly_income |-> i] :
      s \in {x \in BoundaryScores : x >= 700}, i \in BoundaryIncomes }

BracketInit ==
  /\ NoSession
  /\ NoStoreCall
  /\ NoCall
  /\ uw_input = None
  /\ uw_output = None
  /\ bracket_input \in {Some(<<a, b>>) : a \in Applicants, b \in Applicants}
  /\ bracket_output = None

\* Rule 3 of _evaluate_eligibility applied to each of the two applicants.
determine_max_amounts ==
  /\ IsSome(bracket_input)
  /\ IsNone(bracket_output)
  /\ bracket_output' =
       Some(<<max_amount(bracket_input[1][1].credit_score,
                         bracket_input[1][1].monthly_income),
              max_amount(bracket_input[1][2].credit_score,
                         bracket_input[1][2].monthly_income)>>)
  /\ UNCHANGED <<bracket_input, underwriting_vars, orchestrator_vars, store_vars, call_vars>>

SpecBrackets == BracketInit /\ [][determine_max_amounts]_vars

----------------------------------------------------------------------------
(* VerificationAgent.execute called on its own.                            *)

\* Names: two registry names, a part of one, a name of nobody, a missing one.
VerificationNames == { "Sneha Reddy", "Sneha", "Meera Nair", "Vikram Singh", "John Doe", "" }

\* Identifiers: registry identifiers as given, in lower case and between
\* blanks; a well-formed one the registry lacks; malformed ones (a registry
\* identifier of nine characters among them); a missing one.
VerificationPans ==
  { "QRSTU3456V", "qrstu3456v", " QRSTU3456V ", "YZABC8901D", "ZZZZZ9999Z",
    "WXYZ7890A", "INVALID123", "ABCDE12345", "ABCD12345F", "ABCDE1234FG", "" }

VerificationEmploymentTypes == { "SALARIED", "salaried", "BUSINESS", "" }

VerificationInputs ==
  { [name |-> n, pan |-> p, employment_type |-> e] :
      n \in VerificationNames, p \in VerificationPans, e \in VerificationEmploymentTypes }

VerificationInit ==
  /\ NoSession
  /\ NoUnderwritingCall
  /\ NoStoreCall
  /\ call_input \in {Some([fn |-> "VerificationAgent.execute", args |-> i]) :
                        i \in VerificationInputs}
  /\ call_output = None

\* One call of VerificationAgent.execute: what it returns or raises, and the
\* registry calls it made.
execute_verification ==
  /\ IsSome(call_input)
  /\ IsNone(call_output)
  /\ call_output' = Some([result |-> VerificationAgent_execute(call_input[1].args),
                          lookups |-> VerificationAgent_lookups(call_input[1].args)])
  /\ UNCHANGED <<call_input, orchestrator_vars, underwriting_vars, bracket_vars, store_vars>>

SpecVerification == VerificationInit /\ [][execute_verification]_vars

----------------------------------------------------------------------------
(* calculate_emi and SalesAgent.execute called on their own.               *)

EmiPrincipals == { 0, 1, 100000, 500000, 1000000, 1200000, 2000000 }

\* Annual rates in hundredths of a percent.
EmiRates == { 0, 950, 1050, 1275, 1800 }

EmiTenures == { 0, 1, 3, 7, 12, 36, 60 }

\* Calls with a tenure of zero, calls with a rate of zero, and the calls of
\* the sessions.
EmiInputs ==
  { [principal |-> a, annual_rate |-> r, tenure_months |-> n] :
      a \in EmiPrincipals, r \in EmiRates, n \in {0} }
  \cup { [principal |-> a, annual_rate |-> r, tenure_months |-> n] :
           a \in EmiPrincipals, r \in {0}, n \in EmiTenures }
  \cup { [principal |-> 500000, annual_rate |-> 1275, tenure_months |-> 36],
         [principal |-> 500000, annual_rate |-> 1050, tenure_months |-> 36],
         [principal |-> 1200000, annual_rate |-> 1175, tenure_months |-> 60] }

\* A principal and a tenure that are missing, negative, zero or positive.
SalesInputs ==
  { [requested_amount |-> a, tenure_months |-> n] :
      a \in {None, Some(-100000), Some(0), Some(500000)},
      n \in {None, Some(-12), Some(0), Some(36)} }

QuoteInit ==
  /\ NoSession
  /\ NoUnderwritingCall
  /\ NoStoreCall
  /\ call_input \in {Some([fn |-> "calculate_emi", args |-> i]) : i \in EmiInputs}
                     \cup {Some([fn |-> "SalesAgent.execute", args |-> i]) : i \in SalesInputs}
  /\ call_output = None

\* One call of SalesAgent.execute: the quote it returns or the error it
\* raises.
execute_sales ==
  /\ IsSome(call_input)
  /\ call_input[1].fn = "SalesAgent.execute"
  /\ IsNone(call_output)
  /\ call_output' = Some(SalesAgent_execute(call_input[1].args))
  /\ UNCHANGED <<call_input, orchestrator_vars, underwriting_vars, bracket_vars, store_vars>>

\* One call of calculate_emi.
call_calculate_emi ==
  /\ IsSome(call_input)
  /\ call_input[1].fn = "calculate_emi"
  /\ IsNone(call_output)
  /\ call_output' = Some(calculate_emi(call_input[1].args.principal,
                                       call_input[1].args.annual_rate,
                                       call_input[1].args.tenure_months))
  /\ UNCHANGED <<call_input, orchestrator_vars, underwriting_vars, bracket_vars, store_vars>>

QuoteNext == call_calculate_emi \/ execute_sales

SpecQuote == QuoteInit /\ [][QuoteNext]_vars

----------------------------------------------------------------------------
(* A session saved and loaded again: save_state writes                     *)
(* state.model_dump(mode='json') as a JSON document, load_state parses the *)
(* document and builds a ConversationState from its fields.                *)

\* A JSON value: null, string, int, float, array or object.
Json(type, value) == [type |-> type, value |-> value]

\* The turns written last first.
DumpHistory_reversed(history) ==
  Json("array",
       [i \in 1..Len(history) |->
          Json("object", [role |-> Json("string", history[Len(history) + 1 - i].role),
                          content |-> Json("string", history[Len(history) + 1 - i].content)])])

\* conversation_history: List[Message] as an array of objects, in order.
DumpHistory(history) ==
  Json("array",
       [i \in 1..Len(history) |->
          Json("object", [role |-> Json("string", history[i].role),
                          content |-> Json("string", history[i].content)])])

\* ConversationState.model_dump(mode='json'): every field by its declared
\* type, None as null, the stage as its value.
model_dump(state) ==
  LET str(s) == Json("string", s)
      int(n) == Json("int", n)
      float(x) == Json("float", x)
      optional(o, dump(_)) == IF IsNone(o) THEN Json("null", <<>>) ELSE dump(o[1])
      sales(o) ==
        Json("object", [requested_amount |-> int(o.requested_amount),
                        tenure_months |-> int(o.tenure_months),
                        estimated_emi |-> float(o.estimated_emi),
                        interest_range |-> str(o.interest_range)])
      kyc(o) ==
        Json("object", [kyc_status |-> str(o.kyc_status),
                        employment_type |-> str(o.employment_type),
                        monthly_income |-> float(o.monthly_income),
                        risk_flags |-> Json("array", [i \in 1..Len(o.risk_flags) |->
                                                        str(o.risk_flags[i])])])
      underwriting(o) ==
        Json("object", [decision |-> str(o.decision),
                        approved_amount |-> int(o.approved_amount),
                        credit_score |-> int(o.credit_score),
                        rate_components |->
                          Json("object", [k \in DOMAIN o.rate_components |->
                                            float(o.rate_components[k])]),
                        final_interest_rate |-> float(o.final_interest_rate),
                        risk_grade |-> str(o.risk_grade)])
  IN  Json("object",
           [current_stage |-> str(state.current_stage),
            customer_id |-> optional(state.customer_id, str),
            customer_name |-> optional(state.customer_name, str),
            sales_data |-> optional(state.sales_data, sales),
            kyc_data |-> optional(state.kyc_data, kyc),
            underwriting_data |-> optional(state.underwriting_data, underwriting),
            sanction_letter_path |-> optional(state.sanction_letter_path, str),
            conversation_history |-> DumpHistory(state.conversation_history)])

\* ConversationState built from the parsed fields: every field validated
\* against its declared type; a value of another type is a validation error.
model_validate(data) ==
  LET invalid == "ValidationError"
      str(j) == IF j.type = "string" THEN j.value ELSE invalid
      int(j) == IF j.type = "int" THEN j.value ELSE invalid
      float(j) == IF j.type \in {"int", "float"} THEN j.value ELSE invalid
      stage(j) == IF j.type = "string" /\ j.value \in ConversationStage
                  THEN j.value ELSE invalid
      role(j) == IF j.type = "string" /\ j.value \in {"customer", "system"}
                 THEN j.value ELSE invalid
      decision(j) == IF j.type = "string" /\ j.value \in {"APPROVED", "CONDITIONAL", "REJECTED"}
                     THEN j.value ELSE invalid
      optional(j, validate(_)) == IF j.type = "null" THEN None ELSE Some(validate(j))
      list(j, validate(_)) == [i \in 1..Len(j.value) |-> validate(j.value[i])]
      message(j) == [role |-> role(j.value.role), content |-> str(j.value.content)]
      sales(j) == [requested_amount |-> int(j.value.requested_amount),
                   tenure_months |-> int(j.value.tenure_months),
                   estimated_emi |-> float(j.value.estimated_emi),
                   interest_range |-> str(j.value.interest_range)]
      kyc(j) == [kyc_status |-> str(j.value.kyc_status),
                 employment_type |-> str(j.value.employment_type),
                 monthly_income |-> float(j.value.monthly_income),
                 risk_flags |-> list(j.value.risk_flags, str)]
      underwriting(j) ==
        [decision |-> decision(j.value.decision),
         approved_amount |-> int(j.value.approved_amount),
         credit_score |-> int(j.value.credit_score),
         rate_components |-> [k \in DOMAIN j.value.rate_components.value |->
                                j.value.rate_components.value[k].value],
         final_interest_rate |-> float(j.value.final_interest_rate),
         risk_grade |-> str(j.value.risk_grade)]
  IN  [current_stage |-> stage(data.value.current_stage),
       customer_id |-> optional(data.value.customer_id, str),
       customer_name |-> optional(data.value.customer_name, str),
       sales_data |-> optional(data.value.sales_data, sales),
       kyc_data |-> optional(data.value.kyc_data, kyc),
       underwriting_data |-> optional(data.value.underwriting_data, underwriting),
       sanction_letter_path |-> optional(data.value.sanction_letter_path, str),
       conversation_history |-> list(data.value.conversation_history, message)]

\* The session states up to two customer turns after the given one, with
\* every failure the turns can meet.
SessionsWithinTwoTurns(session) ==
  LET After(states) ==
        UNION { { Turn(state, <<>>, msg, fault).w.file :
                    msg \in Utterances, fault \in FaultsFrom(state.current_stage) } :
                state \in states }
  IN  {session} \cup After({session}) \cup After(After({session}))

\* The session states after start_conversation and up to two customer turns.
RoundTripStates ==
  SessionsWithinTwoTurns(
    add_message([file |-> ConversationState, audit |-> <<>>, invoked |-> <<>>, handlers |-> <<>>],
                "system", WelcomeText).file)

RoundTripInit ==
  /\ NoSession
  /\ NoUnderwritingCall
  /\ NoStoreCall
  /\ call_input \in {Some([fn |-> "save_state", args |-> state]) : state \in RoundTripStates}
  /\ call_output = None

\* StateManager.save_state: the document written to the session file.
save_session ==
  /\ IsSome(call_input)
  /\ IsNone(call_output)
  /\ call_output' = Some([file |-> model_dump(call_input[1].args), loaded |-> None])
  /\ UNCHANGED <<call_input, orchestrator_vars, underwriting_vars, bracket_vars, store_vars>>

\* StateManager.load_state: the state built from the document.
load_session ==
  /\ IsSome(call_output)
  /\ IsNone(call_output[1].loaded)
  /\ call_output' = Some([call_output[1] EXCEPT
                            !.loaded = Some(model_validate(call_output[1].file))])
  /\ UNCHANGED <<call_input, orchestrator_vars, underwriting_vars, bracket_vars, store_vars>>

RoundTripNext == save_session \/ load_session

SpecRoundTrip == RoundTripInit /\ [][RoundTripNext]_vars

----------------------------------------------------------------------------
(* services/state_manager.py with two processes on one session.  Each      *)
(* load_state and each save_state takes the session's FileLock for its own *)
(* with block; add_message and update_stage call load_state, change the    *)
(* loaded copy and call save_state.                                        *)

\* Number of calls each process makes.
MaxCalls == 2

\* The calls a process makes: its n-th add_message, or update_stage to KYC.
StoreCalls(p, n) ==
  { [name |-> "add_message", arg |-> Message("customer", <<p, n>>)],
    [name |-> "update_stage", arg |-> "KYC"] }

\* state.conversation_history.append(message) / state.current_stage = new_stage
Modified(state, op) ==
  IF op.name = "add_message"
  THEN [state EXCEPT !.conversation_history = Append(@, op.arg)]
  ELSE [state EXCEPT !.current_stage = op.arg]

\* Leaving a with FileLock(...) block, by return or by exception, releases
\* the lock.
with_exit_held_on_error(lock, raises) == IF raises THEN lock ELSE None

with_exit(lock, raises) == None

Finished(p, ok) ==
  [proc |-> p, n |-> store_proc[p].calls, op |-> store_proc[p].op[1], ok |-> ok]

\* add_message / update_stage is entered: load_state comes first.
store_call(p) ==
  /\ store_proc[p].pc = "idle"
  /\ store_proc[p].calls < MaxCalls
  /\ \E op \in StoreCalls(p, store_proc[p].calls + 1) :
       store_proc' = [store_proc EXCEPT ![p] =
                        [pc |-> "load_wait", op |-> Some(op), state |-> None,
                         calls |-> @.calls + 1]]
  /\ UNCHANGED <<store_file, store_lock, store_log>>
  /\ UNCHANGED <<orchestrator_vars, underwriting_vars, bracket_vars, call_vars>>

\* with FileLock(str(lock_path)): entered once the lock is free.
lock_acquire(p) ==
  /\ store_proc[p].pc \in {"load_wait", "save_wait"}
  /\ IsNone(store_lock)
  /\ store_lock' = Some(p)
  /\ store_proc' = [store_proc EXCEPT ![p].pc =
                      IF @ = "load_wait" THEN "load_locked" ELSE "save_locked"]
  /\ UNCHANGED <<store_file, store_log>>
  /\ UNCHANGED <<orchestrator_vars, underwriting_vars, bracket_vars, call_vars>>

\* load_state reads and parses the file and returns; the caller changes the
\* copy and enters save_state.
load_returns(p) ==
  /\ store_proc[p].pc = "load_locked"
  /\ IsSome(store_file)
  /\ store_lock' = with_exit(store_lock, FALSE)
  /\ store_proc' = [store_proc EXCEPT
                      ![p].pc = "save_wait",
                      ![p].state = Some(Modified(store_file[1], store_proc[p].op[1]))]
  /\ UNCHANGED <<store_file, store_log>>
  /\ UNCHANGED <<orchestrator_vars, underwriting_vars, bracket_vars, call_vars>>

\* open or json.load raises inside load_state's with block.
load_raises(p) ==
  /\ store_proc[p].pc = "load_locked"
  /\ store_lock' = with_exit(store_lock, TRUE)
  /\ store_proc' = [store_proc EXCEPT ![p].pc = "idle"]
  /\ store_log' = store_log \cup {Finished(p, FALSE)}
  /\ UNCHANGED store_file
  /\ UNCHANGED <<orchestrator_vars, underwriting_vars, bracket_vars, call_vars>>

\* save_state writes the copy and returns.
save_returns(p) ==
  /\ store_proc[p].pc = "save_locked"
  /\ store_file' = store_proc[p].state
  /\ store_lock' = with_exit(store_lock, FALSE)
  /\ store_proc' = [store_proc EXCEPT ![p].pc = "idle"]
  /\ store_log' = store_log \cup {Finished(p, TRUE)}
  /\ UNCHANGED <<orchestrator_vars, underwriting_vars, bracket_vars, call_vars>>

\* open(file_path, 'w') or json.dump raises inside save_state's with block:
\* the file is untouched, or left truncated (unparsable).
save_raises(p) ==
  /\ store_proc[p].pc = "save_locked"
  /\ store_file' \in {store_file, None}
  /\ store_lock' = with_exit(store_lock, TRUE)
  /\ store_proc' = [store_proc EXCEPT ![p].pc = "idle"]
  /\ store_log' = store_log \cup {Finished(p, FALSE)}
  /\ UNCHANGED <<orchestrator_vars, underwriting_vars, bracket_vars, call_vars>>

StoreNext ==
  \E p \in Procs :
    \/ store_call(p)
    \/ lock_acquire(p)
    \/ load_returns(p)
    \/ load_raises(p)
    \/ save_returns(p)
    \/ save_raises(p)

SpecStore == Init /\ [][StoreNext]_vars

----------------------------------------------------------------------------
(* A session followed without end: the customer keeps sending turns and    *)
(* every collaborator responds (no file or audit write fails).  The texts  *)
(* of the turns and their audit records are not kept: no handler reads     *)
(* them, and without them a session that makes no progress returns to the  *)
(* same state.  The customer registry is a collaborator: besides the       *)
(* records of mock_data.py it may hold a customer with monthly income 0.   *)

\* Registry records holding a monthly income of 0 for a customer.
ZeroIncomeRecords ==
  { [c EXCEPT !.monthly_income = 0] :
      c \in {c \in CRM_DATABASE : c.customer_id \in {"CUST001", "CUST004"}} }

\* The KYC turn that names the customer of a record.
KycUtteranceOf(record) ==
  CHOOSE u \in KycUtterances :
    /\ PanMatch(u) = Some(record.pan)
    /\ IsSome(KycName(u))
    /\ IsSome(KycEmploymentType(u))

\* The session file after a turn, without the texts of the turn.
WithoutTurnTexts(file, before) ==
  [file EXCEPT !.conversation_history = before.conversation_history]

\* MasterAgent.process_message with every collaborator responding.
live_turn(user_message) ==
  /\ IsSome(current_session_id)
  /\ LET t == Turn(session_file[1], audit_log, user_message, "none")
     IN  /\ session_file' = Some(WithoutTurnTexts(t.w.file, session_file[1]))
         /\ invoked' = t.w.invoked
         /\ dispatched' = t.w.handlers
         /\ response' = t.response
         /\ raised' = t.raised
  /\ last_message' = user_message
  /\ UNCHANGED <<current_session_id, audit_log, turns>>
  /\ UNCHANGED <<underwriting_vars, bracket_vars, store_vars, call_vars>>

\* MasterAgent.process_message on a KYC turn naming a customer for whom the
\* registry holds the given record: the validator returns VERIFIED with the
\* record's employment type and income, and the handler goes on from there.
live_kyc_turn(record) ==
  /\ IsSome(current_session_id)
  /\ session_file[1].current_stage = "KYC"
  /\ LET user_message == KycUtteranceOf(record)
         state == session_file[1]
         w1 == add_message([file |-> state, audit |-> audit_log, invoked |-> <<>>,
                            handlers |-> <<>>],
                           "customer", Text(<<user_message>>, ""))
         input_data == [name |-> KycName(user_message)[1], pan |-> record.pan,
                        employment_type |-> record.employment_type]
         verification_output ==
           VerificationOutput("VERIFIED", record.employment_type, record.monthly_income,
                              RiskFlags(record, record.employment_type))
         r == run(enter(w1, "_handle_kyc_stage"), "VerificationAgent", input_data,
                  Returned(verification_output), FALSE)
         o == kyc_verified(r.w, state, verification_output, record.customer_id,
                           KycName(user_message), "none")
         w2 == add_message(o.w, "system", o.response)
     IN  /\ session_file' = Some(WithoutTurnTexts(w2.file, state))
         /\ invoked' = w2.invoked
         /\ dispatched' = w2.handlers
         /\ response' = o.response
         /\ raised' = o.raised
         /\ last_message' = user_message
  /\ UNCHANGED <<current_session_id, audit_log, turns>>
  /\ UNCHANGED <<underwriting_vars, bracket_vars, store_vars, call_vars>>

LiveNext ==
  \/ start_conversation
  \/ \E user_message \in Utterances : live_turn(user_message)
  \/ \E record \in ZeroIncomeRecords : live_kyc_turn(record)

\* The customer sends a turn whose text differs from that of the turn before.
customer_sends ==
  /\ IsSome(current_session_id)
  /\ \E user_message \in Utterances :
       user_message # last_message /\ last_message' = user_message

\* The customer keeps sending turns.
SpecLive ==
  /\ Init
  /\ [][LiveNext]_vars
  /\ WF_vars(start_conversation)
  /\ WF_last_message(customer_sends)

----------------------------------------------------------------------------
(* Properties                                                              *)

\* The step is a customer turn on the session.
IsTurn == IsSome(session_file) /\ turns' = turns + 1

Stage == session_file[1].current_stage

History == session_file[1].conversation_history

\* The positions of the audit records the step appends.
NewAudit == (Len(audit_log) + 1)..Len(audit_log')

StageOrder == <<"SALES", "KYC", "UNDERWRITING", "SANCTION", "COMPLETED">>

StageRank(stage) == CHOOSE i \in 1..Len(StageOrder) : StageOrder[i] = stage

\* A stage change that moves forward in the order, or into FAILED.
ForwardOrFailed(a, b) ==
  \/ a = b
  \/ b = "FAILED"
  \/ a # "FAILED" /\ StageRank(a) < StageRank(b)

\* C1: over any sequence of customer turns on a session, the persisted stage
\* never moves to an earlier stage in SALES < KYC < UNDERWRITING < SANCTION <
\* COMPLETED; the only non-forward change is a change into FAILED.  The same
\* holds of every transition the turn records in the audit log.
C1_StageMonotonic ==
  [][IsTurn =>
       /\ ForwardOrFailed(Stage, Stage')
       /\ \A i \in NewAudit :
            audit_log'[i].event_type = "STATE_TRANSITION"
              => ForwardOrFailed(audit_log'[i].from_stage, audit_log'[i].to_stage)]_vars

\* C1 witness: a session that went through every stage.
C1_Witness == IsSome(session_file) /\ Stage = "COMPLETED"

\* C2: after a customer turn the persisted history is the history before the
\* turn followed by the customer's text and then the system response.
C2_HistoryAppendOnly ==
  [][IsTurn =>
       History' = History \o << Message("customer", Text(<<last_message'>>, "")),
                               Message("system", response') >>]_vars

\* A session state holding freshly produced data under the stage that
\* produces it.
PartialTransition(state) ==
  \/ state.current_stage = "SALES" /\ IsSome(state.sales_data)
  \/ state.current_stage = "KYC" /\ IsSome(state.kyc_data)
  \/ state.current_stage = "UNDERWRITING" /\ IsSome(state.underwriting_data)
  \/ state.current_stage = "SANCTION" /\ IsSome(state.sanction_letter_path)

\* C3: a stage change and the data write that triggers it are persisted
\* together or not at all: no persisted state holds the new sales quote, KYC
\* result, underwriting result or sanction reference under the pre-transition
\* stage, and a turn that fails persists no change to stage or data fields.
C3_NoPartialTransition ==
  [][IsTurn =>
       /\ ~PartialTransition(session_file'[1])
       /\ IsSome(raised') => DataFields(session_file'[1]) = DataFields(session_file[1])]_vars

\* C4: once the persisted stage is COMPLETED or FAILED, every later customer
\* turn returns the fixed closing message of that stage, invokes no worker
\* and leaves the stage and all data fields unchanged.
C4_TerminalAbsorbing ==
  [][(IsTurn /\ Stage \in {"COMPLETED", "FAILED"}) =>
       /\ response' = IF Stage = "COMPLETED" THEN ClosingCompleted ELSE ClosingFailed
       /\ invoked' = <<>>
       /\ audit_log' = audit_log
       /\ DataFields(session_file'[1]) = DataFields(session_file[1])]_vars

\* C4 witness: a turn answered with the closing message of a completed session.
C4_Witness == IsSome(session_file) /\ Stage = "COMPLETED" /\ response = ClosingCompleted

Invoked(agent_name) == \E i \in 1..Len(invoked) : invoked[i] = agent_name

\* C5: in every persisted session state a KYC result is present only with a
\* sales quote, an underwriting result only with a VERIFIED KYC result, a
\* sanction reference only with an underwriting result; underwriting is never
\* invoked without a quote and a VERIFIED KYC result, the sanction generator
\* never without an underwriting result.
C5_DataPrecedence ==
  IsSome(session_file) =>
    LET state == session_file[1]
        verified == IsSome(state.kyc_data) /\ state.kyc_data[1].kyc_status = "VERIFIED"
    IN  /\ IsSome(state.kyc_data) => IsSome(state.sales_data)
        /\ IsSome(state.underwriting_data) => verified
        /\ IsSome(state.sanction_letter_path) => IsSome(state.underwriting_data)
        /\ Invoked("UnderwritingAgent") => IsSome(state.sales_data) /\ verified
        /\ Invoked("SanctionAgent") => IsSome(state.underwriting_data)

\* C5 witness: a session holding all four results after the sanction
\* generator ran.
C5_Witness ==
  /\ IsSome(session_file)
  /\ IsSome(session_file[1].sanction_letter_path)
  /\ Invoked("SanctionAgent")

\* The verification result the step's audit records report, if any.
VerifiedInStep ==
  \E i \in NewAudit :
    /\ audit_log'[i].event_type = "EXECUTION"
    /\ audit_log'[i].agent = "VerificationAgent"
    /\ audit_log'[i].success
    /\ audit_log'[i].output[1].kyc_status = "VERIFIED"

\* C6: UNDERWRITING and SANCTION auto-advance within the turn that enters
\* them: a KYC turn that yields VERIFIED with nothing raising ends at
\* COMPLETED or FAILED, and no customer turn that completes without an error
\* leaves the persisted stage at UNDERWRITING or SANCTION.  (Stated for turns
\* in which no exception at all is caught, worker errors included.)
C6_AutoAdvance ==
  [][(IsTurn /\ IsNone(raised')) =>
       /\ Stage' \notin {"UNDERWRITING", "SANCTION"}
       /\ (Stage = "KYC" /\ VerifiedInStep) => Stage' \in {"COMPLETED", "FAILED"}]_vars

\* The entities the intent detector and the extractors yield for a turn lack
\* a field the stage's worker needs.
LacksFields(stage, msg) ==
  LET entities == extract_entities(msg, detect_intent(msg, stage).intent)
  IN  \/ stage = "SALES" /\ (IsNone(entities.amount) \/ IsNone(entities.tenure_months))
      \/ stage = "KYC" /\ \/ IsNone(KycName(msg))
                           \/ IsNone(entities.pan)
                           \/ IsNone(KycEmploymentType(msg))

ClarificationPrompts ==
  { Text(<<"I need a bit more information.">>, ""),
    Text(<<"Please provide all required details:">>, ""),
    Text(<<"I didn't quite catch that. Could you please tell me:">>, ""),
    Text(<<"I need your KYC details to proceed. Please provide:">>, "") }

\* C7: a SALES turn lacking the amount or the tenure, and a KYC turn lacking
\* the name, the PAN or the employment type, returns a clarification prompt,
\* invokes no worker and leaves the persisted stage and all data fields
\* unchanged (so repeating it has the effect of doing it once).
C7_MissingFieldsNoOp ==
  [][(IsTurn /\ LacksFields(Stage, last_message')) =>
       /\ response' \in ClarificationPrompts
       /\ invoked' = <<>>
       /\ audit_log' = audit_log
       /\ DataFields(session_file'[1]) = DataFields(session_file[1])]_vars

\* C7 witness: a KYC turn that gave the PAN only was answered with the prompt.
C7_Witness ==
  /\ IsSome(session_file)
  /\ Stage = "KYC"
  /\ last_message = "PAN QRSTU3456V"
  /\ response = Text(<<"Please provide all required details:">>, "")

WorkerOf(at) ==
  CASE at = "sales.run" -> "SalesAgent"
    [] at = "kyc.run" -> "VerificationAgent"
    [] at = "underwriting.run" -> "UnderwritingAgent"
    [] at = "sanction.run" -> "SanctionAgent"

WorkerCalls == {"sales.run", "kyc.run", "underwriting.run", "sanction.run"}

RetryPrompts == {SalesErrorText, KycErrorText}

\* C8: if a worker raises during a turn, an audit execution record with
\* success = false and the error text is appended for that worker, the
\* customer receives a retry prompt, and the persisted stage and data fields
\* are what they were immediately before the failing worker call.
C8_WorkerErrorContained ==
  [][(IsTurn /\ IsSome(raised') /\ raised'[1].at \in WorkerCalls) =>
       /\ \E i \in NewAudit :
            /\ audit_log'[i].event_type = "EXECUTION"
            /\ audit_log'[i].agent = WorkerOf(raised'[1].at)
            /\ ~audit_log'[i].success
            /\ audit_log'[i].error = raised'[1].error
       /\ response' \in RetryPrompts
       /\ DataFields(session_file'[1]) = raised'[1].before]_vars

\* C9: no response returned to the customer contains the text of an internal
\* exception.
C9_NoErrorTextInResponse == response.error = ""

\* The step appends a transition record into FAILED that carries a reason.
FailedTransitionLogged ==
  \E i \in NewAudit :
    /\ audit_log'[i].event_type = "STATE_TRANSITION"
    /\ audit_log'[i].to_stage = "FAILED"
    /\ audit_log'[i].reason # ""

\* C10: whenever the KYC validator returns FAILED or the underwriting engine
\* returns REJECTED, the orchestrator stores that result in the session, sets
\* the persisted stage to FAILED and appends an audit transition record to
\* FAILED carrying a reason.  (Stated for turns in which nothing raises.)
C10_RejectionsPersisted ==
  [][(IsTurn /\ IsNone(raised')) =>
       \A i \in NewAudit :
         (audit_log'[i].event_type = "EXECUTION" /\ audit_log'[i].success) =>
           /\ (audit_log'[i].agent = "VerificationAgent"
                 /\ audit_log'[i].output[1].kyc_status = "FAILED") =>
                /\ session_file'[1].kyc_data = audit_log'[i].output
                /\ Stage' = "FAILED"
                /\ FailedTransitionLogged
           /\ (audit_log'[i].agent = "UnderwritingAgent"
                 /\ audit_log'[i].output[1].decision = "REJECTED") =>
                /\ session_file'[1].underwriting_data = audit_log'[i].output
                /\ Stage' = "FAILED"
                /\ FailedTransitionLogged]_vars

----------------------------------------------------------------------------
(* Properties of the underwriting engine                                   *)

\* The decision and approved amount the eligibility rules prescribe.
ReferenceDecision(i) ==
  LET max_eligible ==
        CASE i.credit_score >= 750 /\ i.monthly_income >= 75000 -> 2000000
          [] ~(i.credit_score >= 750 /\ i.monthly_income >= 75000)
               /\ i.monthly_income >= 50000 -> 1000000
          [] OTHER -> 500000
  IN  CASE i.credit_score < 700 -> <<"REJECTED", 0>>
        [] i.credit_score >= 700 /\ 2 * i.estimated_emi > 100 * i.monthly_income ->
             <<"REJECTED", 0>>
        [] OTHER -> IF i.requested_amount > max_eligible
                    THEN <<"CONDITIONAL", max_eligible>>
                    ELSE <<"APPROVED", i.requested_amount>>

\* C14: for every score, income, requested principal and indicative EMI the
\* decision and the approved principal are those of the reference: REJECTED
\* with 0 below score 700; else REJECTED with 0 when the EMI exceeds half of
\* the income (exactly half is not rejected); else CONDITIONAL with the
\* maximum eligible principal when the request exceeds it, else APPROVED with
\* the requested principal.
C14_DecisionReference ==
  IsSome(uw_output) =>
    <<uw_output[1].decision, uw_output[1].approved_amount>> = ReferenceDecision(uw_input[1])

\* C14 witness: an EMI of exactly half of an income of 50,000 at score 700 was
\* not rejected, and the request above the bracket was reduced to 1,000,000.
C14_Witness ==
  /\ IsSome(uw_output)
  /\ uw_input[1].credit_score = 700
  /\ uw_input[1].monthly_income = 50000
  /\ 2 * uw_input[1].estimated_emi = 100 * uw_input[1].monthly_income
  /\ uw_output[1].decision = "CONDITIONAL"
  /\ uw_output[1].approved_amount = 1000000

\* C15: with the indicative EMI of the sales quote, a request of 1,500,000
\* (likewise any request above 1,000,000) over 48 months by a customer with
\* score 710 (likewise any passing score) and income 55,000 is decided
\* CONDITIONAL with approved amount 1,000,000.
C15_ConditionalScenario ==
  (/\ IsSome(uw_output)
   /\ uw_input[1].credit_score >= 700
   /\ uw_input[1].monthly_income = 55000
   /\ uw_input[1].requested_amount > 1000000
   /\ uw_input[1].tenure_months = 48
   /\ uw_input[1].estimated_emi = SalesQuote(uw_input[1].requested_amount, 48))
  => /\ uw_output[1].decision = "CONDITIONAL"
     /\ uw_output[1].approved_amount = 1000000

\* C16: principal 500,000 over 36 months at score 760 and income 80,000, with
\* the indicative EMI of the quote, is APPROVED for 500,000 with credit
\* adjustment -0.5, tenure adjustment 0 and final rate 10.5.
C16_ApprovedScenario ==
  (/\ IsSome(uw_output)
   /\ uw_input[1] = UnderwritingInput(760, 80000, 500000, 36, SalesQuote(500000, 36)))
  => /\ uw_output[1].decision = "APPROVED"
     /\ uw_output[1].approved_amount = 500000
     /\ uw_output[1].rate_components.credit_adjustment = 0 - 50
     /\ uw_output[1].rate_components.tenure_adjustment = 0
     /\ uw_output[1].final_interest_rate = 1050

\* C16 witness: the engine returned for exactly that request.
C16_Witness ==
  /\ IsSome(uw_output)
  /\ uw_input[1] = UnderwritingInput(760, 80000, 500000, 36, SalesQuote(500000, 36))

\* The number of full 50-point steps of a score above 700.
FullSteps(credit_score) ==
  IF credit_score < 700 THEN 0
  ELSE CHOOSE k \in 0..3 : 700 + 50 * k <= credit_score /\ credit_score < 750 + 50 * k

\* C18: for every score in [600, 850] and every positive tenure the final
\* rate is 11.0 plus the credit adjustment plus the tenure adjustment, clamped
\* to [9.5, 18.0], whatever the decision; the credit adjustment is -0.5 times
\* the number of full 50-point steps of the score above 700 and never
\* positive.
C18_RateComposition ==
  IsSome(uw_output) =>
    LET c == uw_output[1].rate_components
        composed == 1100 + c.credit_adjustment + c.tenure_adjustment
    IN  /\ uw_output[1].final_interest_rate =
             (IF composed < 950 THEN 950 ELSE IF composed > 1800 THEN 1800 ELSE composed)
        /\ uw_output[1].final_interest_rate >= 950
        /\ uw_output[1].final_interest_rate <= 1800
        /\ c.credit_adjustment = 0 - 50 * FullSteps(uw_input[1].credit_score)
        /\ c.credit_adjustment <= 0

\* C18 witness: a REJECTED decision whose composed rate was above the upper
\* bound carries the final rate 18.0.
C18_Witness ==
  /\ IsSome(uw_output)
  /\ uw_output[1].decision = "REJECTED"
  /\ 1100 + uw_output[1].rate_components.credit_adjustment
          + uw_output[1].rate_components.tenure_adjustment > 1800
  /\ uw_output[1].final_interest_rate = 1800

\* C19: the tenure adjustment is 0.2 for every full year of tenure beyond
\* three years: 0.2 * max(0, floor(tenure_months / 12) - 3).
C19_TenureAdjustmentPerFullYear ==
  IsSome(uw_output) =>
    uw_output[1].rate_components.tenure_adjustment =
      20 * Max(0, (uw_input[1].tenure_months \div 12) - 3)

\* C20: of two applicants who pass the score threshold, the one with the
\* lower-or-equal score and the lower-or-equal income never has the greater
\* maximum eligible principal.
C20_BracketMonotonic ==
  (/\ IsSome(bracket_output)
   /\ bracket_input[1][1].credit_score <= bracket_input[1][2].credit_score
   /\ bracket_input[1][1].monthly_income <= bracket_input[1][2].monthly_income)
  => bracket_output[1][1] <= bracket_output[1][2]

\* C20 witness: a score of 710 at income 55,000 got 1,000,000 and a score of
\* 760 at the same income got no less.
C20_Witness ==
  /\ IsSome(bracket_output)
  /\ bracket_input[1][1] = [credit_score |-> 710, monthly_income |-> 55000]
  /\ bracket_input[1][2] = [credit_score |-> 760, monthly_income |-> 55000]
  /\ bracket_output[1][1] = 1000000

----------------------------------------------------------------------------
(* The binding EMI of the sanction stage                                   *)

\* The arguments of the sanction generator's calls for a principal of
\* 500,000 at 10.5% over 36 months.
SanctionCalls ==
  { i \in 1..Len(audit_log) :
      /\ audit_log[i].event_type = "EXECUTION"
      /\ audit_log[i].agent = "SanctionAgent"
      /\ audit_log[i].input.approved_amount = 500000
      /\ audit_log[i].input.final_interest_rate = 1050
      /\ audit_log[i].input.tenure_months = 36 }

\* C17 as stated: the binding EMI the sanction stage computes for 500,000 at
\* 10.5% over 36 months is 16,254.42.
C17_BindingEmi == \A i \in SanctionCalls : audit_log[i].input.estimated_emi = 1625442

\* C17 as amended: that EMI is 16,251.22.
C17_BindingEmiAmended == \A i \in SanctionCalls : audit_log[i].input.estimated_emi = 1625122

\* C17 witness: the sanction generator was called for such a loan.
C17_Witness == SanctionCalls # {}

----------------------------------------------------------------------------
(* Properties of the state store under two processes                       *)

\* The persisted session shows the effect of a finished call.
EffectPersisted(r) ==
  IF r.op.name = "add_message"
  THEN \E i \in 1..Len(store_file[1].conversation_history) :
         store_file[1].conversation_history[i] = r.op.arg
  ELSE store_file[1].current_stage = r.op.arg

\* C12: no update is lost when two processes race on one session: once the
\* add_message and update_stage calls of both have all returned, the
\* persisted session holds the effect of every one of them.
C12_NoLostUpdate ==
  (/\ \A p \in Procs : store_proc[p].pc = "idle"
   /\ \A r \in store_log : r.ok)
  => \A r \in store_log : EffectPersisted(r)

\* C13: the lock is released on every exit path of load_state and
\* save_state: a process outside their with blocks never holds it, so when
\* no process is inside one the lock is free for the next call.
C13_LockReleased ==
  /\ \A p \in Procs :
       store_proc[p].pc \notin {"load_locked", "save_locked"} => store_lock # Some(p)
  /\ (\A p \in Procs : store_proc[p].pc \notin {"load_locked", "save_locked"})
       => IsNone(store_lock)

\* C13 witness: the first call of a process raised inside a with block and
\* the process holds the lock again in its second call.
C13_Witness ==
  \E r \in store_log :
    /\ ~r.ok
    /\ r.n = 1
    /\ store_proc[r.proc].calls = 2
    /\ store_lock = Some(r.proc)

----------------------------------------------------------------------------
(* Stage changes and their audit records.                                  *)

\* The STATE_TRANSITION records a step appends to the audit file, in order.
NewTransitions ==
  LET IsTransition(rec) == rec.event_type = "STATE_TRANSITION"
  IN SelectSeq(SubSeq(audit_log', Len(audit_log) + 1, Len(audit_log')), IsTransition)

\* C11: every change of the persisted stage in a turn has exactly one
\* STATE_TRANSITION audit record whose from_stage is the stage before the
\* change and whose to_stage is the stage after it, and no such record is
\* written without its change: the records of a turn form a chain of
\* proper changes from the stage persisted before the turn to the stage
\* persisted after it, and a turn without records leaves the stage alone.
C11_TransitionAudited ==
  [][IsTurn =>
       LET recs == NewTransitions
           n == Len(recs)
       IN /\ n = 0 => Stage' = Stage
          /\ n > 0 => /\ recs[1].from_stage = Stage
                      /\ recs[n].to_stage = Stage'
          /\ \A i \in 1..n : recs[i].from_stage # recs[i].to_stage
          /\ \A i \in 1..(n - 1) : recs[i].to_stage = recs[i + 1].from_stage]_vars

----------------------------------------------------------------------------
(* The KYC validator.                                                      *)

\* The identifier of the call as the validator sees it.
CalledPan == upper(strip(call_input[1].args.pan))

\* The call had all three fields.
CalledWithFields ==
  /\ strip(call_input[1].args.name) # ""
  /\ CalledPan # ""
  /\ upper(strip(call_input[1].args.employment_type)) # ""

\* Five letters, four digits, one letter.
WellFormedPans == { "QRSTU3456V", "YZABC8901D", "ZZZZZ9999Z" }

\* C21: a call of the KYC validator whose identifier, after upper-casing, is
\* not five letters, four digits and one letter returns FAILED with exactly
\* the flag INVALID_PAN_FORMAT and makes no registry call.
C21_FormatFailureSkipsRegistry ==
  (IsSome(call_output) /\ CalledWithFields /\ CalledPan \notin WellFormedPans)
  => /\ call_output[1].result.ok
     /\ call_output[1].result.output[1].kyc_status = "FAILED"
     /\ call_output[1].result.output[1].risk_flags = <<"INVALID_PAN_FORMAT">>
     /\ call_output[1].lookups = <<>>

\* C21 witness: the call with INVALID123 has returned.
C21_Witness ==
  /\ IsSome(call_output)
  /\ CalledWithFields
  /\ call_input[1].args.pan = "INVALID123"

\* The successful executions of a worker in the audit trail.
Executions(agent_name) ==
  { i \in 1..Len(audit_log) :
      /\ audit_log[i].event_type = "EXECUTION"
      /\ audit_log[i].agent = agent_name
      /\ audit_log[i].success }

\* C22: every KYC result with status FAILED carries at least one risk flag
\* and a monthly income of 0, and no income of a FAILED result is stored in
\* the session or passed to the underwriting engine: the session's KYC
\* result, when set, is a VERIFIED one, and the income of every underwriting
\* call is the income of an earlier VERIFIED result.
C22_FailedResultUnused ==
  /\ \A i \in Executions("VerificationAgent") :
       audit_log[i].output[1].kyc_status = "FAILED" =>
         /\ audit_log[i].output[1].risk_flags # <<>>
         /\ audit_log[i].output[1].monthly_income = 0
  /\ (/\ IsSome(call_output)
      /\ call_output[1].result.ok
      /\ call_output[1].result.output[1].kyc_status = "FAILED") =>
         /\ call_output[1].result.output[1].risk_flags # <<>>
         /\ call_output[1].result.output[1].monthly_income = 0
  /\ (IsSome(session_file) /\ IsSome(session_file[1].kyc_data)) =>
       session_file[1].kyc_data[1].kyc_status = "VERIFIED"
  /\ \A i \in 1..Len(audit_log) :
       (audit_log[i].event_type = "EXECUTION" /\ audit_log[i].agent = "UnderwritingAgent") =>
         \E j \in Executions("VerificationAgent") :
           /\ j < i
           /\ audit_log[j].output[1].kyc_status = "VERIFIED"
           /\ audit_log[j].output[1].monthly_income = audit_log[i].input.monthly_income

\* C22 witness: a session whose KYC validation returned FAILED.
C22_Witness ==
  \E i \in Executions("VerificationAgent") :
    audit_log[i].output[1].kyc_status = "FAILED"

\* The flag is among the risk flags.
Flagged(flags, flag) == \E k \in 1..Len(flags) : flags[k] = flag

\* C23: for a well-formed identifier, when the registry holds a record for
\* it and the name matches, the validator returns VERIFIED with the
\* registry's employment type and income, with LOW_INCOME exactly when the
\* income is below 25,000 and with EMPLOYMENT_TYPE_MISMATCH when the stated
\* employment type differs from the registry's; when the registry holds no
\* record it returns FAILED with CUSTOMER_NOT_FOUND.
C23_RegistryMatch ==
  (IsSome(call_output) /\ CalledWithFields /\ CalledPan \in WellFormedPans) =>
    LET name == strip(call_input[1].args.name)
        stated == upper(strip(call_input[1].args.employment_type))
        records == { c \in CRM_DATABASE : c.pan = CalledPan }
        result == call_output[1].result
    IN  /\ result.ok
        /\ records = {} =>
             /\ result.output[1].kyc_status = "FAILED"
             /\ result.output[1].risk_flags = <<"CUSTOMER_NOT_FOUND">>
        /\ \A c \in records :
             NameMatch(name, c.name) =>
               /\ result.output[1].kyc_status = "VERIFIED"
               /\ result.output[1].employment_type = c.employment_type
               /\ result.output[1].monthly_income = c.monthly_income
               /\ Flagged(result.output[1].risk_flags, "LOW_INCOME")
                    <=> c.monthly_income < 25000
               /\ stated # c.employment_type =>
                    Flagged(result.output[1].risk_flags, "EMPLOYMENT_TYPE_MISMATCH")

----------------------------------------------------------------------------
(* The EMI handed to the sanction document generator                       *)

\* Every call of the sanction generator in the audit trail, failed ones
\* included.
SanctionRuns ==
  { i \in 1..Len(audit_log) :
      audit_log[i].event_type = "EXECUTION" /\ audit_log[i].agent = "SanctionAgent" }

----------------------------------------------------------------------------
(* The EMI function's edge cases                                           *)

\* C25: emi(p, r, 0) = 0 for every principal and rate, and for a tenure
\* n > 0 emi(p, 0, n) = p / n: n instalments of it make up the principal
\* exactly (amounts in paise).
C25_EmiEdgeCases ==
  (IsSome(call_output) /\ call_input[1].fn = "calculate_emi") =>
    LET args == call_input[1].args
        emi == call_output[1]
    IN  /\ args.tenure_months = 0 => emi = 0
        /\ (args.tenure_months > 0 /\ args.annual_rate = 0) =>
             /\ emi.den # 0
             /\ emi.num % 100 = 0
             /\ (emi.num \div 100) * args.tenure_months = args.principal * emi.den

\* C25 witness: a call with rate zero over a tenure that does not divide
\* the principal has returned.
C25_Witness ==
  /\ IsSome(call_output)
  /\ call_input[1].fn = "calculate_emi"
  /\ call_input[1].args.annual_rate = 0
  /\ call_input[1].args.tenure_months = 7
  /\ call_input[1].args.principal = 100000

----------------------------------------------------------------------------
(* The requirement collector's validation                                  *)

\* The field is present and strictly positive.
Positive(field) == IsSome(field) /\ field[1] > 0

\* C26: SalesAgent.execute raises its validation error, producing no quote,
\* whenever the principal or the tenure is missing, zero or negative, and
\* returns a quote only when both are strictly positive.
C26_NonPositiveRejected ==
  (IsSome(call_output) /\ call_input[1].fn = "SalesAgent.execute") =>
    LET args == call_input[1].args
    IN  IF Positive(args.requested_amount) /\ Positive(args.tenure_months)
        THEN call_output[1].ok /\ IsSome(call_output[1].output)
        ELSE ~call_output[1].ok /\ IsNone(call_output[1].output)

----------------------------------------------------------------------------
(* Saving and loading a session                                            *)

----------------------------------------------------------------------------
(* Turns whose intent is unclear                                           *)

\* The texts _handle_unclear_intent returns.
UnclearPrompts ==
  { Text(<<"I didn't quite catch that. Could you please tell me:">>, ""),
    Text(<<"I need your KYC details to proceed. Please provide:">>, ""),
    Text(<<"I'm not sure I understood. Could you please rephrase?">>, "") }

\* Intent detection asks for clarification on the turn's message at the
\* stage the session is in.
Unclear == detect_intent(last_message', Stage).requires_clarification

\* C28: a turn for which intent detection returns requires_clarification is
\* answered with a clarification message; no worker is invoked, nothing is
\* written to the audit trail, and the persisted stage and data fields are
\* those of before the turn.
C28_UnclearTurnNoOp ==
  [][(IsTurn /\ Unclear) =>
       /\ response' \in UnclearPrompts
       /\ invoked' = <<>>
       /\ audit_log' = audit_log
       /\ IsNone(raised')
       /\ DataFields(session_file'[1]) = DataFields(session_file[1])]_vars

\* C28 witness: the session holds a quote, is at KYC, and has just answered
\* an unclear message with the KYC clarification.
C28_Witness ==
  /\ IsSome(session_file)
  /\ Stage = "KYC"
  /\ IsSome(session_file[1].sales_data)
  /\ detect_intent(last_message, Stage).requires_clarification
  /\ response = Text(<<"I need your KYC details to proceed. Please provide:">>, "")

----------------------------------------------------------------------------
(* Turns into FAILED                                                       *)

\* Some session at the stage, within two turns of the given one, has a turn
\* (an utterance, with or without a failing operation) after which the
\* persisted stage is FAILED.
FailedReachableFrom(session, stage) ==
  \E state \in SessionsWithinTwoTurns(session) :
    /\ state.current_stage = stage
    /\ \E msg \in Utterances, fault \in FaultsFrom(stage) :
         Turn(state, <<>>, msg, fault).w.file.current_stage = "FAILED"

\* C29: FAILED is reachable from each of SALES, KYC and UNDERWRITING: from a
\* newly started session, for each of the three stages the conversation can
\* reach a session at that stage that has a turn changing the persisted
\* stage from it directly to FAILED.
C29_FailedReachable ==
  (IsSome(session_file) /\ turns = 0) =>
    \A stage \in {"SALES", "KYC", "UNDERWRITING"} :
      FailedReachableFrom(session_file[1], stage)

\* No turn of a session at SALES leaves the persisted stage FAILED.
NoFailureFromSales ==
  [][(IsTurn /\ Stage = "SALES") => Stage' # "FAILED"]_vars

----------------------------------------------------------------------------
(* Exactly-once, ordered application of the business rules                 *)

WorkerOrder == <<"SalesAgent", "VerificationAgent", "UnderwritingAgent", "SanctionAgent">>

WorkerRank(agent_name) == CHOOSE k \in 1..Len(WorkerOrder) : WorkerOrder[k] = agent_name

\* C30: in the audit trail of a session the successful executions of the
\* workers appear in the order Sales, Verification, Underwriting, Sanction,
\* and each worker has at most one successful execution, also when a save
\* or a transition fails after a worker has succeeded.
C30_ExactlyOnceInOrder ==
  \A i, j \in UNION { Executions(WorkerOrder[k]) : k \in 1..Len(WorkerOrder) } :
    i < j => WorkerRank(audit_log[i].agent) < WorkerRank(audit_log[j].agent)

----------------------------------------------------------------------------
(* The stored sales quote                                                  *)

\* The sales quote of the persisted session.
Quote == session_file[1].sales_data

\* C31: once a sales quote is stored in the session, no later turn changes
\* any of its fields: every customer turn on a session that holds a quote
\* leaves the persisted quote as it was.
C31_QuoteImmutable ==
  [][(IsTurn /\ IsSome(Quote)) => Quote' = Quote]_vars

\* The quote the session holds when it has left SALES stays as it is.
QuoteFrozenAfterSales ==
  [][(IsTurn /\ Stage # "SALES") => Quote' = Quote]_vars

----------------------------------------------------------------------------
(* The KYC-failure example scenario                                        *)

\* The turn of the scenario: name, malformed identifier, employment type.
KycFailureTurn == "John Doe, PAN INVALID123, SALARIED"

\* The step's audit records hold a call of the KYC validator that returned
\* FAILED with the flag INVALID_PAN_FORMAT.
FormatFailureInStep ==
  \E i \in NewAudit :
    /\ audit_log'[i].event_type = "EXECUTION"
    /\ audit_log'[i].agent = "VerificationAgent"
    /\ audit_log'[i].success
    /\ audit_log'[i].output[1].kyc_status = "FAILED"
    /\ audit_log'[i].output[1].risk_flags = <<"INVALID_PAN_FORMAT">>

\* C32: a KYC-stage turn that supplies a name, an employment type and the
\* malformed identifier INVALID123 ends with the persisted stage FAILED, the
\* KYC validator having been invoked and having returned FAILED with
\* INVALID_PAN_FORMAT.
C32_KycFailureScenario ==
  [][(IsTurn /\ Stage = "KYC" /\ last_message' = KycFailureTurn) =>
       /\ Stage' = "FAILED"
       /\ FormatFailureInStep]_vars

\* No turn of a session ever has the validator return INVALID_PAN_FORMAT.
FormatFailureUnreachable == [][~FormatFailureInStep]_vars

----------------------------------------------------------------------------
(* Turns on a session left at a system-driven stage                        *)

\* The worker whose computation a system-driven stage performs.
StageWorker(stage) ==
  IF stage = "UNDERWRITING" THEN "UnderwritingAgent" ELSE "SanctionAgent"

\* The turn started with the stage's computation and was not answered with
\* a clarification prompt.
Recomputed(stage) ==
  /\ invoked' # <<>>
  /\ invoked'[1] = StageWorker(stage)
  /\ response' \notin UnclearPrompts

\* C34: a session whose persisted stage is UNDERWRITING or SANCTION at the
\* start of a customer turn re-invokes that stage's computation on that
\* turn whatever the turn's text is; the computation is never skipped in
\* favour of a clarification prompt.
C34_SystemStagesRerun ==
  [][(IsTurn /\ Stage \in {"UNDERWRITING", "SANCTION"}) => Recomputed(Stage)]_vars

\* The part of it that concerns UNDERWRITING.
UnderwritingRerun ==
  [][(IsTurn /\ Stage = "UNDERWRITING") => Recomputed(Stage)]_vars

----------------------------------------------------------------------------
(* The chain of transition records                                         *)

\* The STATE_TRANSITION records of the audit trail, in order.
Transitions ==
  LET IsTransition(rec) == rec.event_type = "STATE_TRANSITION"
  IN  SelectSeq(audit_log, IsTransition)

\* C35: at every turn boundary the audit trail's transition records form a
\* chain: the first goes from NONE to SALES, each later record's from_stage
\* is the previous record's to_stage, and the to_stage of the last record is
\* the session's persisted stage.
C35_AuditChain ==
  IsSome(session_file) =>
    LET recs == Transitions
        n == Len(recs)
    IN  /\ n > 0
        /\ recs[1].from_stage = "NONE"
        /\ recs[1].to_stage = "SALES"
        /\ \A i \in 2..n : recs[i].from_stage = recs[i - 1].to_stage
        /\ recs[n].to_stage = Stage

----------------------------------------------------------------------------
(* Consistency of an underwriting result                                   *)

\* C36: in every underwriting result the approved principal is 0 exactly
\* when the decision is REJECTED; otherwise it is positive, at most the
\* requested principal and at most 2,000,000, equal to the requested
\* principal exactly when the decision is APPROVED and below it exactly when
\* the decision is CONDITIONAL; and a result that is not REJECTED has risk
\* grade A+, A or B+.
C36_ResultConsistent ==
  IsSome(uw_output) =>
    LET decision == uw_output[1].decision
        approved == uw_output[1].approved_amount
        requested == uw_input[1].requested_amount
    IN  /\ approved = 0 <=> decision = "REJECTED"
        /\ decision # "REJECTED" =>
              /\ 0 < approved
              /\ approved <= requested
              /\ approved <= 2000000
              /\ approved = requested <=> decision = "APPROVED"
              /\ approved < requested <=> decision = "CONDITIONAL"
              /\ uw_output[1].risk_grade \in {"A+", "A", "B+"}

\* C36 witness: a request of 2,000,001 in the top bracket was approved
\* conditionally for 2,000,000.
C36_Witness ==
  /\ IsSome(uw_output)
  /\ uw_input[1].requested_amount = 2000001
  /\ uw_output[1].decision = "CONDITIONAL"
  /\ uw_output[1].approved_amount = 2000000

----------------------------------------------------------------------------
(* What a session at a terminal stage holds                                *)

\* C37: at every turn boundary, a session persisted at COMPLETED holds the
\* sales quote, a VERIFIED KYC result, the customer identifier, an
\* underwriting result with decision APPROVED or CONDITIONAL and a sanction
\* reference; a session persisted at FAILED holds no sanction reference and
\* the sanction generator was never invoked for it; and the customer
\* identifier is present exactly when a KYC result is present.
C37_TerminalStageData ==
  IsSome(session_file) =>
    LET state == session_file[1]
    IN  /\ state.current_stage = "COMPLETED" =>
              /\ IsSome(state.sales_data)
              /\ IsSome(state.kyc_data)
              /\ state.kyc_data[1].kyc_status = "VERIFIED"
              /\ IsSome(state.customer_id)
              /\ IsSome(state.underwriting_data)
              /\ state.underwriting_data[1].decision \in {"APPROVED", "CONDITIONAL"}
              /\ IsSome(state.sanction_letter_path)
        /\ state.current_stage = "FAILED" =>
              /\ IsNone(state.sanction_letter_path)
              /\ SanctionRuns = {}
        /\ IsSome(state.customer_id) <=> IsSome(state.kyc_data)

\* C37 witness: a session completed after a conditional approval, reached
\* although the audit write of its last transition failed.
C37_Witness ==
  /\ IsSome(session_file)
  /\ Stage = "COMPLETED"
  /\ session_file[1].underwriting_data[1].decision = "CONDITIONAL"
  /\ IsSome(raised)
  /\ raised[1].at = "sanction.log"

\* A rejected session at FAILED, with its KYC result and customer identifier.
RejectedSessionReached ==
  /\ IsSome(session_file)
  /\ Stage = "FAILED"
  /\ IsSome(session_file[1].kyc_data)
  /\ IsSome(session_file[1].customer_id)

----------------------------------------------------------------------------
(* The handlers and workers of one turn                                    *)

\* The handlers a turn starting at the stage may go through, in call order.
HandlerChain(stage) ==
  CASE stage = "SALES" -> <<"_handle_sales_stage">>
    [] stage = "KYC" ->
         <<"_handle_kyc_stage", "_handle_underwriting_stage", "_handle_sanction_stage">>
    [] stage = "UNDERWRITING" -> <<"_handle_underwriting_stage", "_handle_sanction_stage">>
    [] stage = "SANCTION" -> <<"_handle_sanction_stage">>
    [] OTHER -> <<>>

IsPrefix(a, b) == Len(a) <= Len(b) /\ a = SubSeq(b, 1, Len(a))

Occurrences(seq, x) == Cardinality({i \in 1..Len(seq) : seq[i] = x})

\* C38: a customer turn goes through a bounded chain of handlers.  The turn
\* is dispatched to the handler of the stage loaded at its start and to no
\* other (to none when intent detection asks for clarification or the stage
\* is COMPLETED or FAILED, which are answered without a stage handler); the
\* handlers entered are an initial part of the chain that starts there,
\* each entered once; each worker is invoked at most once; at most three
\* stage transitions are performed; and the Sales worker and the
\* Verification worker are never both invoked in the same turn.
C38_BoundedTurn ==
  [][IsTurn =>
       /\ IsPrefix(dispatched', HandlerChain(Stage))
       /\ dispatched' = <<>> <=> (Unclear \/ Stage \in {"COMPLETED", "FAILED"})
       /\ \A k \in 1..Len(WorkerOrder) : Occurrences(invoked', WorkerOrder[k]) <= 1
       /\ Len(invoked') <= Len(dispatched')
       /\ Len(NewTransitions) <= 3
       /\ Stage' # "FAILED" => StageRank(Stage') - StageRank(Stage) <= 3
       /\ Occurrences(invoked', "SalesAgent") = 0
            \/ Occurrences(invoked', "VerificationAgent") = 0]_vars

\* C38 as stated: every customer turn is dispatched to the handler of the
\* stage loaded at its start.
C38_ExactlyOneHandler ==
  [][IsTurn =>
       /\ dispatched' # <<>>
       /\ IsPrefix(dispatched', HandlerChain(Stage))]_vars

\* C38 witness: a turn went from KYC through all three handlers and
\* workers to COMPLETED, with its three transitions recorded.
C38_Witness ==
  /\ IsSome(session_file)
  /\ Stage = "COMPLETED"
  /\ dispatched = HandlerChain("KYC")
  /\ invoked = <<"VerificationAgent", "UnderwritingAgent", "SanctionAgent">>
  /\ Len(Transitions) = 5

----------------------------------------------------------------------------
(* Progress of a verified session                                          *)

\* The session holds a VERIFIED KYC result.
KycVerified ==
  /\ IsSome(session_file)
  /\ IsSome(session_file[1].kyc_data)
  /\ session_file[1].kyc_data[1].kyc_status = "VERIFIED"

\* C33: every session whose KYC result is VERIFIED eventually reaches
\* COMPLETED or FAILED, given that the customer keeps sending turns and the
\* collaborators respond; this includes a registry record with monthly
\* income 0.
C33_VerifiedTerminates ==
  [](KycVerified => <>(IsSome(session_file) /\ Stage \in {"COMPLETED", "FAILED"}))

\* With the income the registry of mock_data.py holds, a verified session is
\* at COMPLETED or FAILED at every turn boundary.
VerifiedWithIncomeTerminal ==
  (KycVerified /\ session_file[1].kyc_data[1].monthly_income > 0)
    => Stage \in {"COMPLETED", "FAILED"}

====
